---- MODULE Spec2Model ----
(***************************************************************************)
(* A model of the algo-approx scalar approximation kernels.                *)
(*                                                                         *)
(* Scalars are IEEE-754 binary floating-point values: NaN, signed          *)
(* infinities, signed zeros and finite values s * m * 2^e.  The two        *)
(* widths keep their exponent ranges (float32: 8 exponent bits, bias 127;  *)
(* float64: 11 exponent bits, bias 1023); the fraction field is narrowed   *)
(* to FracBits32 / FracBits64 bits so that every operation is computed     *)
(* with integers.  All arithmetic rounds to nearest, ties to even, with    *)
(* gradual underflow and overflow to infinity.  A bit pattern is the       *)
(* integer  expField * 2^fb + fraction  (sign bit clear), i.e. the top     *)
(* bits of the machine pattern.                                            *)
(***************************************************************************)
EXTENDS Integers, Sequences, FiniteSets, TLC

\* Width of the fraction field kept for each scalar width.
FracBits32 == 7
FracBits64 == 11

F32 == [w |-> 32, fb |-> FracBits32, bias |-> 127, emin |-> -126, emax |-> 127]
F64 == [w |-> 64, fb |-> FracBits64, bias |-> 1023, emin |-> -1022, emax |-> 1023]

Fmt(w) == IF w = 32 THEN F32 ELSE F64

Max(a, b) == IF a >= b THEN a ELSE b
Min(a, b) == IF a <= b THEN a ELSE b

RECURSIVE BitLen(_)
BitLen(n) == IF n = 0 THEN 0 ELSE 1 + BitLen(n \div 2)

---------------------------------------------------------------------------
\* Values.  s = 1 is the sign bit set.  A finite non-zero value has m odd.

NaN == [k |-> "nan", s |-> 0, m |-> 0, e |-> 0]
Inf(s) == [k |-> "inf", s |-> s, m |-> 0, e |-> 0]
Zero(s) == [k |-> "zero", s |-> s, m |-> 0, e |-> 0]

RECURSIVE Canon(_, _, _)
Canon(s, m, e) ==
  IF m % 2 = 0 THEN Canon(s, m \div 2, e + 1)
  ELSE [k |-> "fin", s |-> s, m |-> m, e |-> e]

IsNaN(x) == x.k = "nan"
IsInf(x, sign) ==
  /\ x.k = "inf"
  /\ \/ sign = 0
     \/ sign > 0 /\ x.s = 0
     \/ sign < 0 /\ x.s = 1
IsZero(x) == x.k = "zero"
IsFin(x) == x.k = "fin"
Top(x) == x.e + BitLen(x.m) - 1

\* Round s * (M + sticky) * 2^E to the format: nearest, ties to even.
Round(f, s, M, E, sticky) ==
  IF M = 0 THEN Zero(s)
  ELSE
    LET nb == BitLen(M)
        sh == Max(nb - (f.fb + 1), (f.emin - f.fb) - E)
    IN IF sh <= 0
       THEN IF E + nb - 1 > f.emax THEN Inf(s) ELSE Canon(s, M, E)
       ELSE IF sh > nb THEN Zero(s)
       ELSE
         LET q == M \div (2^sh)
             r == M % (2^sh)
             half == 2^(sh - 1)
             up == r > half \/ (r = half /\ (sticky \/ q % 2 = 1))
             q2 == IF up THEN q + 1 ELSE q
         IN IF q2 = 0 THEN Zero(s)
            ELSE IF E + sh + BitLen(q2) - 1 > f.emax THEN Inf(s)
            ELSE Canon(s, q2, E + sh)

\* An integer as a scalar of the format: T(n), float64(n).
FromInt(f, n) == IF n < 0 THEN Round(f, 1, -n, 0, FALSE) ELSE Round(f, 0, n, 0, FALSE)

\* A conversion between the widths: T(x), float64(x), float32(x).
Conv(f, x) == IF x.k = "fin" THEN Round(f, x.s, x.m, x.e, FALSE) ELSE x

Neg(x) == IF x.k = "nan" THEN x ELSE [x EXCEPT !.s = 1 - x.s]
Xor(a, b) == IF a = b THEN 0 ELSE 1

Mul(f, a, b) ==
  IF a.k = "nan" \/ b.k = "nan" THEN NaN
  ELSE IF a.k = "inf" \/ b.k = "inf"
       THEN IF a.k = "zero" \/ b.k = "zero" THEN NaN ELSE Inf(Xor(a.s, b.s))
  ELSE IF a.k = "zero" \/ b.k = "zero" THEN Zero(Xor(a.s, b.s))
  ELSE Round(f, Xor(a.s, b.s), a.m * b.m, a.e + b.e, FALSE)

Div(f, a, b) ==
  IF a.k = "nan" \/ b.k = "nan" THEN NaN
  ELSE IF a.k = "inf" THEN (IF b.k = "inf" THEN NaN ELSE Inf(Xor(a.s, b.s)))
  ELSE IF b.k = "inf" THEN Zero(Xor(a.s, b.s))
  ELSE IF b.k = "zero" THEN (IF a.k = "zero" THEN NaN ELSE Inf(Xor(a.s, b.s)))
  ELSE IF a.k = "zero" THEN Zero(Xor(a.s, b.s))
  ELSE
    LET sh == f.fb + 3 + BitLen(b.m) - BitLen(a.m)
        num == a.m * (2^sh)
    IN Round(f, Xor(a.s, b.s), num \div b.m, a.e - b.e - sh, num % b.m # 0)

Add(f, a, b) ==
  IF a.k = "nan" \/ b.k = "nan" THEN NaN
  ELSE IF a.k = "inf"
       THEN (IF b.k = "inf" /\ b.s # a.s THEN NaN ELSE a)
  ELSE IF b.k = "inf" THEN b
  ELSE IF a.k = "zero"
       THEN (IF b.k = "zero" THEN Zero(IF a.s = 1 /\ b.s = 1 THEN 1 ELSE 0) ELSE b)
  ELSE IF b.k = "zero" THEN a
  ELSE
    LET ta == Top(a)
        tb == Top(b)
    IN IF ta - tb > f.fb + 3 THEN a
       ELSE IF tb - ta > f.fb + 3 THEN b
       ELSE
         LET lo == Min(a.e, b.e)
             va == (IF a.s = 1 THEN -1 ELSE 1) * a.m * (2^(a.e - lo))
             vb == (IF b.s = 1 THEN -1 ELSE 1) * b.m * (2^(b.e - lo))
             sum == va + vb
         IN IF sum = 0 THEN Zero(0)
            ELSE IF sum < 0 THEN Round(f, 1, -sum, lo, FALSE)
            ELSE Round(f, 0, sum, lo, FALSE)

Sub(f, a, b) == Add(f, a, Neg(b))

\* |a| < |b| for finite non-zero a, b.
MagLt(a, b) ==
  LET ta == Top(a)
      tb == Top(b)
      lo == Min(a.e, b.e)
  IN \/ ta < tb
     \/ ta = tb /\ a.m * (2^(a.e - lo)) < b.m * (2^(b.e - lo))

\* The Go comparisons; every comparison with NaN is false, -0 == +0.
Lt(a, b) ==
  IF a.k = "nan" \/ b.k = "nan" THEN FALSE
  ELSE IF a.k = "zero" /\ b.k = "zero" THEN FALSE
  ELSE IF a.k = "zero" THEN b.s = 0
  ELSE IF b.k = "zero" THEN a.s = 1
  ELSE IF a.s # b.s THEN a.s = 1
  ELSE IF a.k = "inf" THEN (a.s = 1 /\ b.k # "inf")
  ELSE IF b.k = "inf" THEN b.s = 0
  ELSE IF a.s = 0 THEN MagLt(a, b) ELSE MagLt(b, a)

Eq(a, b) ==
  /\ a.k # "nan"
  /\ b.k # "nan"
  /\ \/ a = b
     \/ a.k = "zero" /\ b.k = "zero"

Gt(a, b) == Lt(b, a)
Le(a, b) == Lt(a, b) \/ Eq(a, b)
Ne(a, b) == ~Eq(a, b)

\* IsInf of package math: sign > 0 tests +Inf, sign < 0 tests -Inf, 0 either.
MathIsInf(x, sign) == IsInf(x, sign)

\* 2^n mod d, by repeated squaring.
RECURSIVE PowMod(_, _)
PowMod(n, d) ==
  IF n = 0 THEN 1 % d
  ELSE LET h == PowMod(n \div 2, d)
       IN IF n % 2 = 1 THEN (h * h * 2) % d ELSE (h * h) % d

\* r * 2^n mod d (the exact remainder of a scaled integer).
ShiftMod(r, n, d) == (r * PowMod(n, d)) % d

\* math.Mod(a, b): the exact remainder of a / b, with the sign of a.
MathMod(a, b) ==
  IF a.k = "nan" \/ b.k = "nan" \/ a.k = "inf" \/ b.k = "zero" THEN NaN
  ELSE IF b.k = "inf" \/ a.k = "zero" THEN a
  ELSE IF MagLt(a, b) THEN a
  ELSE IF a.e >= b.e
       THEN LET r == ShiftMod(a.m % b.m, a.e - b.e, b.m)
            IN IF r = 0 THEN Zero(a.s) ELSE Canon(a.s, r, b.e)
       ELSE LET r == a.m % (b.m * (2^(b.e - a.e)))
            IN IF r = 0 THEN Zero(a.s) ELSE Canon(a.s, r, a.e)

\* math.Floor(a).
MathFloor(a) ==
  IF a.k # "fin" \/ a.e >= 0 THEN a
  ELSE IF -a.e >= BitLen(a.m)
       THEN (IF a.s = 1 THEN Canon(1, 1, 0) ELSE Zero(0))
  ELSE LET q == a.m \div (2^(-a.e))
       IN IF a.s = 1 THEN Canon(1, q + 1, 0)
          ELSE Canon(0, q, 0)

\* int(a) for an integral finite a of small magnitude.
ToInt(a) ==
  IF a.k # "fin" THEN 0
  ELSE (IF a.s = 1 THEN -1 ELSE 1) * a.m * (2^a.e)

\* math.Ldexp(a, n) = a * 2^n, rounded once.
MathLdexp(a, n) == IF a.k = "fin" THEN Round(F64, a.s, a.m, a.e + n, FALSE) ELSE a

\* The largest r with r * r <= n.
RECURSIVE ISqrtFrom(_, _, _)
ISqrtFrom(n, r, bit) ==
  IF bit = 0 THEN r
  ELSE IF (r + bit) * (r + bit) <= n THEN ISqrtFrom(n, r + bit, bit \div 2)
  ELSE ISqrtFrom(n, r, bit \div 2)

ISqrt(n) == ISqrtFrom(n, 0, 2^15)

\* math.Sqrt(a), correctly rounded.
MathSqrt(a) ==
  IF a.k = "nan" THEN NaN
  ELSE IF a.k = "zero" THEN a
  ELSE IF a.s = 1 THEN NaN
  ELSE IF a.k = "inf" THEN a
  ELSE
    LET want == 2 * F64.fb + 4 - BitLen(a.m)
        sh == IF (a.e - want) % 2 = 0 THEN want ELSE want + 1
        n == a.m * (2^sh)
        r == ISqrt(n)
    IN Round(F64, 0, r, (a.e - sh) \div 2, r * r # n)

---------------------------------------------------------------------------
\* Bit patterns of positive values: expField * 2^fb + fraction.

\* math.Float32bits / math.Float64bits of a value with the sign bit clear.
Bits(f, a) ==
  IF a.k = "zero" THEN 0
  ELSE IF a.k = "inf" THEN (2 * f.bias + 1) * (2^f.fb)
  ELSE IF a.k = "nan" THEN (2 * f.bias + 1) * (2^f.fb) + 2^(f.fb - 1)
  ELSE LET t == Top(a)
       IN IF t < f.emin
          THEN a.m * (2^(a.e - (f.emin - f.fb)))
          ELSE (t + f.bias) * (2^f.fb) + (a.m * (2^(f.fb - (t - a.e))) - 2^f.fb)

\* math.Float32frombits / math.Float64frombits of a pattern with the sign bit clear.
FromBits(f, u) ==
  LET ef == u \div (2^f.fb)
      fr == u % (2^f.fb)
  IN IF ef = 2 * f.bias + 1 THEN (IF fr = 0 THEN Inf(0) ELSE NaN)
     ELSE IF ef = 0 THEN (IF fr = 0 THEN Zero(0) ELSE Canon(0, fr, f.emin - f.fb))
     ELSE Canon(0, 2^f.fb + fr, ef - f.bias - f.fb)

---------------------------------------------------------------------------
\* Precision (internal/approx/types.go) and dispatch.

PrecisionAuto == 0
PrecisionFast == 1
PrecisionBalanced == 2
PrecisionHigh == 3

IsValid(p) == p \in {PrecisionAuto, PrecisionFast, PrecisionBalanced, PrecisionHigh}

normalizePrecision(p) ==
  IF p = PrecisionAuto THEN PrecisionBalanced
  ELSE IF ~IsValid(p) THEN PrecisionBalanced
  ELSE p

selectImpl(fast, balanced, high, prec) ==
  LET np == normalizePrecision(prec)
  IN IF np = PrecisionFast THEN fast
     ELSE IF np = PrecisionBalanced \/ np = PrecisionAuto THEN balanced
     ELSE IF np = PrecisionHigh THEN high
     ELSE balanced

\* The public package's Precision (options.go): the same integers.
PublicPrecisionAuto == 0
PublicPrecisionFast == 1
PublicPrecisionBalanced == 2
PublicPrecisionHigh == 3

PublicIsValid(p) ==
  p \in {PublicPrecisionAuto, PublicPrecisionFast, PublicPrecisionBalanced,
         PublicPrecisionHigh}

\* normalizePrecision of the public package, missing the test for Auto.
PublicNormalizePrecisionNoAuto(p) ==
  IF ~PublicIsValid(p) THEN PublicPrecisionBalanced
  ELSE p

\* normalizePrecision of the public package.
PublicNormalizePrecision(p) ==
  IF p = PublicPrecisionAuto THEN PublicPrecisionBalanced
  ELSE IF ~PublicIsValid(p) THEN PublicPrecisionBalanced
  ELSE p

\* iapprox.Precision(p): the conversion between the two integer types.
ToInternalPrecision(p) == p

---------------------------------------------------------------------------
\* Constants of the kernels.  A kernel returns [v |-> value, tr |-> steps run].

One == Canon(0, 1, 0)
Two == Canon(0, 1, 1)
Half == Canon(0, 1, -1)
ThreeHalf == Canon(0, 3, -1)

Ret(v, tr) == [v |-> v, tr |-> tr]

RECURSIVE Rep(_, _)
Rep(step, n) == IF n <= 0 THEN <<>> ELSE <<step>> \o Rep(step, n - 1)

ln2 == Round(F64, 0, 744261118, -30, FALSE)
invLn2 == Round(F64, 0, 774541002, -29, FALSE)
maxLogFloat64 == Round(F64, 0, 744261118, -20, FALSE)
\* The underflow bound of float32 (about -103.97) in place of float64's.
minLogFloat32Bound == Round(F64, 1, 6813915, -16, FALSE)
minLogFloat64 == Round(F64, 1, 781328810, -20, FALSE)

---------------------------------------------------------------------------
\* Sqrt (internal/approx/sqrt.go).

\* 0x1fc00000, and the top 32 bits of 0x1ff8000000000000.
SqrtOffset32 == 532676608
SqrtOffset64Hi == 536346624

\* The pattern of sqrtInitialGuess with the input's bits not shifted: the sum
\* reaches the sign bit for large inputs.
sqrtSeedBitsNoShift(f, x) ==
  IF f.w = 32
  THEN Bits(f, x) + (SqrtOffset32 \div (2^(23 - f.fb)))
  ELSE Bits(f, x) + (SqrtOffset64Hi \div (2^(20 - f.fb)))

\* ux = (ux >> 1) + offset.
sqrtSeedBits(f, x) ==
  IF f.w = 32
  THEN (Bits(f, x) \div 2) + (SqrtOffset32 \div (2^(23 - f.fb)))
  ELSE (Bits(f, x) \div 2) + (SqrtOffset64Hi \div (2^(20 - f.fb)))

sqrtInitialGuess(f, x) == FromBits(f, sqrtSeedBits(f, x))

RECURSIVE BabylonianLoop(_, _, _, _)
BabylonianLoop(f, x, y, n) ==
  IF n <= 0 THEN y
  ELSE BabylonianLoop(f, x, Mul(f, Half, Add(f, y, Div(f, x, y))), n - 1)

\* sqrtBabylonian without the test for infinities: +Inf reaches the seed.
sqrtBabylonianNoInfTest(f, x, iterations) ==
  IF Eq(x, Zero(0)) THEN Ret(Zero(0), <<>>)
  ELSE IF Lt(x, Zero(0)) THEN Ret(NaN, <<>>)
  ELSE IF Ne(x, x) THEN Ret(x, <<>>)
  ELSE
    LET y0 == sqrtInitialGuess(f, x)
        y == IF Eq(y0, Zero(0)) THEN x ELSE y0
    IN Ret(BabylonianLoop(f, x, y, iterations),
           <<"sqrtInitialGuess">> \o Rep("babylonian", iterations))

sqrtBabylonian(f, x, iterations) ==
  IF Eq(x, Zero(0)) THEN Ret(Zero(0), <<>>)
  ELSE IF Lt(x, Zero(0)) THEN Ret(NaN, <<>>)
  ELSE IF Ne(x, x) THEN Ret(x, <<>>)
  ELSE IF MathIsInf(x, 0) THEN Ret(x, <<>>)
  ELSE
    LET y0 == sqrtInitialGuess(f, x)
        y == IF Eq(y0, Zero(0)) THEN x ELSE y0
    IN Ret(BabylonianLoop(f, x, y, iterations),
           <<"sqrtInitialGuess">> \o Rep("babylonian", iterations))

sqrtFast(f, x) == sqrtBabylonian(f, x, 1)
\* sqrtBalanced with a convergence test: the second update is skipped when the
\* first one left the seed unchanged.
sqrtBalancedConverging(f, x) ==
  LET y0 == sqrtInitialGuess(f, x)
      y == IF Eq(y0, Zero(0)) THEN x ELSE y0
      one == sqrtBabylonian(f, x, 1)
  IN IF one.tr # <<>> /\ Eq(one.v, y) THEN one ELSE sqrtBabylonian(f, x, 2)

sqrtBalanced(f, x) == sqrtBabylonian(f, x, 2)
sqrtHigh(f, x) == sqrtBabylonian(f, x, 3)

Sqrt(f, x, prec) ==
  LET impl == selectImpl("fast", "balanced", "high", prec)
  IN IF impl = "fast" THEN sqrtFast(f, x)
     ELSE IF impl = "high" THEN sqrtHigh(f, x)
     ELSE sqrtBalanced(f, x)

\* FastSqrt of the public package: the default precision, normalised.
FastSqrt(f, x) == Sqrt(f, x, normalizePrecision(PrecisionAuto))

---------------------------------------------------------------------------
\* InvSqrt.

\* 0x5f3759df, and the top 32 bits of 0x5fe6eb50c7b537a9.
InvSqrtMagic32 == 1597463007
InvSqrtMagic64Hi == 1608969040

\* i = magic - (i >> 1).
invSqrtSeedBits(f, x) ==
  IF f.w = 32
  THEN (InvSqrtMagic32 \div (2^(23 - f.fb))) - (Bits(f, x) \div 2)
  ELSE (InvSqrtMagic64Hi \div (2^(20 - f.fb))) - (Bits(f, x) \div 2)

invSqrtQuake(f, x) == FromBits(f, invSqrtSeedBits(f, x))

RECURSIVE NewtonLoop(_, _, _, _)
NewtonLoop(f, x, y, n) ==
  IF n <= 0 THEN y
  ELSE NewtonLoop(f, x,
         Mul(f, y, Sub(f, ThreeHalf, Mul(f, Mul(f, Mul(f, Half, x), y), y))), n - 1)

invSqrtQuakeNR(f, x, iters) ==
  IF Eq(x, Zero(0)) THEN Ret(Inf(0), <<>>)
  ELSE IF Lt(x, Zero(0)) THEN Ret(NaN, <<>>)
  ELSE IF Ne(x, x) THEN Ret(x, <<>>)
  ELSE IF MathIsInf(x, 0) THEN Ret(Zero(0), <<>>)
  ELSE Ret(NewtonLoop(f, x, invSqrtQuake(f, x), iters),
           <<"invSqrtQuake">> \o Rep("newton", iters))

invSqrtFast(f, x) == invSqrtQuakeNR(f, x, 1)
invSqrtBalanced(f, x) == invSqrtQuakeNR(f, x, 2)
invSqrtHigh(f, x) == invSqrtQuakeNR(f, x, 3)

InvSqrt(f, x, prec) ==
  LET impl == selectImpl("fast", "balanced", "high", prec)
  IN IF impl = "fast" THEN invSqrtFast(f, x)
     ELSE IF impl = "high" THEN invSqrtHigh(f, x)
     ELSE invSqrtBalanced(f, x)

---------------------------------------------------------------------------
\* Log (internal/approx/log.go).  The series is evaluated in float64.

K(n) == FromInt(F64, n)
Recip(n) == Div(F64, One, K(n))

\* The value of the sum and the number of `sum += p * (1/k)` statements run.
\* logSeries without the High case: High falls to the default series.
logSeriesNoHigh(y, prec) ==
  LET y2 == Mul(F64, y, y)
      p3 == Mul(F64, y, y2)
      p5 == Mul(F64, p3, y2)
      p7 == Mul(F64, p5, y2)
      s3 == Add(F64, y, Mul(F64, p3, Recip(3)))
      s5 == Add(F64, s3, Mul(F64, p5, Recip(5)))
      s7 == Add(F64, s5, Mul(F64, p7, Recip(7)))
      np == normalizePrecision(prec)
  IN IF np = PrecisionFast THEN [v |-> s3, terms |-> 1]
     ELSE [v |-> s7, terms |-> 3]

logSeries(y, prec) ==
  LET y2 == Mul(F64, y, y)
      p3 == Mul(F64, y, y2)
      p5 == Mul(F64, p3, y2)
      p7 == Mul(F64, p5, y2)
      p9 == Mul(F64, p7, y2)
      p11 == Mul(F64, p9, y2)
      s3 == Add(F64, y, Mul(F64, p3, Recip(3)))
      s5 == Add(F64, s3, Mul(F64, p5, Recip(5)))
      s7 == Add(F64, s5, Mul(F64, p7, Recip(7)))
      s9 == Add(F64, s7, Mul(F64, p9, Recip(9)))
      s11 == Add(F64, s9, Mul(F64, p11, Recip(11)))
      np == normalizePrecision(prec)
  IN IF np = PrecisionFast THEN [v |-> s3, terms |-> 1]
     ELSE IF np = PrecisionHigh THEN [v |-> s11, terms |-> 5]
     ELSE [v |-> s7, terms |-> 3]

\* The exponent and mantissa fields of float64(x) read as x = m * 2^e, m in
\* [0.5, 1): the implicit leading 1 is added whatever the exponent field.
logMantExp(x) ==
  LET bits == Bits(F64, x)
      expBits == ((bits \div (2^F64.fb)) % 2048) - 1023
      mant == bits % (2^F64.fb)
      m1 == Add(F64, One, Mul(F64, K(mant), Canon(0, 1, -F64.fb)))
  IN [m |-> Mul(F64, m1, Half), e |-> expBits + 1]

\* Log without the test for zero: 0 reaches the bit extraction.
LogNoZeroTest(f, x, prec) ==
  IF Ne(x, x) THEN Ret(x, <<>>)
  ELSE IF Lt(x, Zero(0)) THEN Ret(NaN, <<>>)
  ELSE IF MathIsInf(x, 1) THEN Ret(Inf(0), <<>>)
  ELSE
    LET me == logMantExp(x)
        m == me.m
        e == me.e
        y == Div(F64, Sub(F64, m, One), Add(F64, m, One))
        series == logSeries(y, prec)
        lnm == Mul(F64, Two, series.v)
    IN Ret(Conv(f, Add(F64, lnm, Mul(F64, K(e), ln2))),
           <<"logBits", "logSeries">> \o Rep("logTerm", series.terms))

Log(f, x, prec) ==
  IF Ne(x, x) THEN Ret(x, <<>>)
  ELSE IF Eq(x, Zero(0)) THEN Ret(Inf(1), <<>>)
  ELSE IF Lt(x, Zero(0)) THEN Ret(NaN, <<>>)
  ELSE IF MathIsInf(x, 1) THEN Ret(Inf(0), <<>>)
  ELSE
    LET me == logMantExp(x)
        m == me.m
        e == me.e
        y == Div(F64, Sub(F64, m, One), Add(F64, m, One))
        series == logSeries(y, prec)
        lnm == Mul(F64, Two, series.v)
    IN Ret(Conv(f, Add(F64, lnm, Mul(F64, K(e), ln2))),
           <<"logBits", "logSeries">> \o Rep("logTerm", series.terms))

---------------------------------------------------------------------------
\* Exp (internal/approx/exp.go).

\* The value of the polynomial and its degree in r.
expPoly(r, prec) ==
  LET c6 == Recip(6)
      c24 == Recip(24)
      c120 == Recip(120)
      c720 == Recip(720)
      c5040 == Recip(5040)
      H(c, t) == Add(F64, c, Mul(F64, r, t))
      p3 == H(One, H(One, H(Half, c6)))
      p5 == H(One, H(One, H(Half, H(c6, H(c24, c120)))))
      p7 == H(One, H(One, H(Half, H(c6, H(c24, H(c120, H(c720, c5040)))))))
  IN IF prec = PrecisionFast THEN [v |-> p3, degree |-> 3]
     ELSE IF prec = PrecisionAuto \/ prec = PrecisionBalanced THEN [v |-> p5, degree |-> 5]
     ELSE IF prec = PrecisionHigh THEN [v |-> p7, degree |-> 7]
     ELSE [v |-> p5, degree |-> 5]

\* k := int(math.Floor(xf*invLn2 + 0.5)).
expK(x) == ToInt(MathFloor(Add(F64, Mul(F64, x, invLn2), Half)))

\* expScale building 2^k from bits for k = 1024 as well: the exponent field is
\* all ones.
expScaleWide(expr, k) ==
  IF k > -1023 /\ k <= 1024
  THEN Ret(Mul(F64, expr, FromBits(F64, (k + 1023) * (2^F64.fb))), <<"expScaleBits">>)
  ELSE Ret(MathLdexp(expr, k), <<"expLdexp">>)

\* expr * 2^k: 2^k from its bit pattern in the normal exponent range,
\* math.Ldexp otherwise.
expScale(expr, k) ==
  IF k > -1023 /\ k < 1024
  THEN Ret(Mul(F64, expr, FromBits(F64, (k + 1023) * (2^F64.fb))), <<"expScaleBits">>)
  ELSE Ret(MathLdexp(expr, k), <<"expLdexp">>)

\* Exp testing IsInf(x, 0) where the code tests IsInf(x, 1): -Inf returns +Inf.
ExpAnyInfTest(f, x, prec) ==
  IF Ne(x, x) THEN Ret(x, <<>>)
  ELSE IF MathIsInf(x, 0) THEN Ret(Inf(0), <<>>)
  ELSE IF MathIsInf(x, -1) THEN Ret(Zero(0), <<>>)
  ELSE IF Gt(x, maxLogFloat64) THEN Ret(Inf(0), <<>>)
  ELSE IF Lt(x, minLogFloat64) THEN Ret(Zero(0), <<>>)
  ELSE
    LET k == expK(x)
        r == Sub(F64, x, Mul(F64, K(k), ln2))
        poly == expPoly(r, normalizePrecision(prec))
        scaled == expScale(poly.v, k)
    IN Ret(Conv(f, scaled.v),
           <<"expReduce", "expPoly">> \o Rep("expTerm", poly.degree) \o scaled.tr)

Exp(f, x, prec) ==
  IF Ne(x, x) THEN Ret(x, <<>>)
  ELSE IF MathIsInf(x, 1) THEN Ret(Inf(0), <<>>)
  ELSE IF MathIsInf(x, -1) THEN Ret(Zero(0), <<>>)
  ELSE IF Gt(x, maxLogFloat64) THEN Ret(Inf(0), <<>>)
  ELSE IF Lt(x, minLogFloat64) THEN Ret(Zero(0), <<>>)
  ELSE
    LET k == expK(x)
        r == Sub(F64, x, Mul(F64, K(k), ln2))
        poly == expPoly(r, normalizePrecision(prec))
        scaled == expScale(poly.v, k)
    IN Ret(Conv(f, scaled.v),
           <<"expReduce", "expPoly">> \o Rep("expTerm", poly.degree) \o scaled.tr)

---------------------------------------------------------------------------
\* Sine, cosine, secant, cosecant (internal/approx/trig.go).

Pi == Round(F64, 0, 843314857, -28, FALSE)
twoPi == Round(F64, 0, 843314857, -27, FALSE)
PiHalf == Round(F64, 0, 843314857, -29, FALSE)
PiQuarter == Round(F64, 0, 843314857, -30, FALSE)

\* The range reduction shared by every sinNTerm: the reduced argument.
\* sinReduce reflecting both half-ranges about +pi: a remainder below -pi/2
\* is mapped to pi - xf.
sinReduceOneSided(x) ==
  LET x0 == MathMod(x, twoPi)
      x1 == IF Gt(x0, Pi) THEN Sub(F64, x0, twoPi)
            ELSE IF Lt(x0, Neg(Pi)) THEN Add(F64, x0, twoPi)
            ELSE x0
  IN IF Gt(x1, PiHalf) THEN Sub(F64, Pi, x1)
     ELSE IF Lt(x1, Neg(PiHalf)) THEN Sub(F64, Pi, x1)
     ELSE x1

sinReduce(x) ==
  LET x0 == MathMod(x, twoPi)
      x1 == IF Gt(x0, Pi) THEN Sub(F64, x0, twoPi)
            ELSE IF Lt(x0, Neg(Pi)) THEN Add(F64, x0, twoPi)
            ELSE x0
  IN IF Gt(x1, PiHalf) THEN Sub(F64, Pi, x1)
     ELSE IF Lt(x1, Neg(PiHalf)) THEN Sub(F64, Neg(Pi), x1)
     ELSE x1

\* cosReduce without the wrap of a negative remainder into [0, 2*pi).
cosReduceNoWrap(x) ==
  LET x0 == MathMod(x, twoPi)
  IN IF Gt(x0, Pi) THEN Sub(F64, twoPi, x0) ELSE x0

\* The range reduction shared by every cosNTerm.
cosReduce(x) ==
  LET x0 == MathMod(x, twoPi)
      x1 == IF Lt(x0, Zero(0)) THEN Add(F64, x0, twoPi) ELSE x0
  IN IF Gt(x1, Pi) THEN Sub(F64, twoPi, x1) ELSE x1

\* xf - x3/6 + x5/120 - x7/5040 + x9/362880 - x11/39916800 + x13/6227020800,
\* cut after `terms` terms.
sinPoly(xf, terms) ==
  LET x2 == Mul(F64, xf, xf)
      x3 == Mul(F64, xf, x2)
      x5 == Mul(F64, x3, x2)
      x7 == Mul(F64, x5, x2)
      x9 == Mul(F64, x7, x2)
      x11 == Mul(F64, x9, x2)
      x13 == Mul(F64, x11, x2)
      t2 == Sub(F64, xf, Div(F64, x3, K(6)))
      t3 == Add(F64, t2, Div(F64, x5, K(120)))
      t4 == Sub(F64, t3, Div(F64, x7, K(5040)))
      t5 == Add(F64, t4, Div(F64, x9, K(362880)))
      t6 == Sub(F64, t5, Div(F64, x11, K(39916800)))
      t7 == Add(F64, t6, Div(F64, x13, Round(F64, 0, 6081075, 10, FALSE)))
  IN CASE terms = 3 -> t3
       [] terms = 4 -> t4
       [] terms = 5 -> t5
       [] terms = 6 -> t6
       [] OTHER -> t7

\* 1 - x2/2 + x4/24 - x6/720 + x8/40320 - x10/3628800 + x12/479001600.
cosPoly(xf, terms) ==
  LET x2 == Mul(F64, xf, xf)
      x4 == Mul(F64, x2, x2)
      x6 == Mul(F64, x4, x2)
      x8 == Mul(F64, x6, x2)
      x10 == Mul(F64, x8, x2)
      x12 == Mul(F64, x10, x2)
      t2 == Sub(F64, One, Div(F64, x2, K(2)))
      t3 == Add(F64, t2, Div(F64, x4, K(24)))
      t4 == Sub(F64, t3, Div(F64, x6, K(720)))
      t5 == Add(F64, t4, Div(F64, x8, K(40320)))
      t6 == Sub(F64, t5, Div(F64, x10, K(3628800)))
      t7 == Add(F64, t6, Div(F64, x12, K(479001600)))
  IN CASE terms = 3 -> t3
       [] terms = 4 -> t4
       [] terms = 5 -> t5
       [] terms = 6 -> t6
       [] OTHER -> t7

sinNTerm(f, x, terms) ==
  LET sign == One
  IN Ret(Mul(f, sign, Conv(f, sinPoly(sinReduce(x), terms))),
         <<"sinReduce", "sinPoly">> \o Rep("sinTerm", terms))

cosNTerm(f, x, terms) ==
  Ret(Conv(f, cosPoly(cosReduce(x), terms)),
      <<"cosReduce", "cosPoly">> \o Rep("cosTerm", terms))

sin3Term(f, x) == sinNTerm(f, x, 3)
sin5Term(f, x) == sinNTerm(f, x, 5)
sin7Term(f, x) == sinNTerm(f, x, 7)
cos3Term(f, x) == cosNTerm(f, x, 3)
cos5Term(f, x) == cosNTerm(f, x, 5)
cos7Term(f, x) == cosNTerm(f, x, 7)

Reciprocal(f, r) == Ret(Div(f, One, r.v), r.tr \o <<"reciprocal">>)

sec3Term(f, x) == Reciprocal(f, cos3Term(f, x))
sec5Term(f, x) == Reciprocal(f, cos5Term(f, x))
sec7Term(f, x) == Reciprocal(f, cos7Term(f, x))
csc3Term(f, x) == Reciprocal(f, sin3Term(f, x))
csc5Term(f, x) == Reciprocal(f, sin5Term(f, x))
csc7Term(f, x) == Reciprocal(f, sin7Term(f, x))

Sin(f, x, prec) ==
  IF prec = PrecisionAuto \/ prec = PrecisionBalanced THEN sin5Term(f, x)
  ELSE IF prec = PrecisionFast THEN sin3Term(f, x)
  ELSE IF prec = PrecisionHigh THEN sin7Term(f, x)
  ELSE sin5Term(f, x)

Cos(f, x, prec) ==
  IF prec = PrecisionAuto \/ prec = PrecisionBalanced THEN cos5Term(f, x)
  ELSE IF prec = PrecisionFast THEN cos3Term(f, x)
  ELSE IF prec = PrecisionHigh THEN cos7Term(f, x)
  ELSE cos5Term(f, x)

Sec(f, x, prec) ==
  IF prec = PrecisionAuto \/ prec = PrecisionBalanced THEN sec5Term(f, x)
  ELSE IF prec = PrecisionFast THEN sec3Term(f, x)
  ELSE IF prec = PrecisionHigh THEN sec7Term(f, x)
  ELSE sec5Term(f, x)

\* Csc with a special case at the singularity: NaN where the sine is zero.
CscGuarded(f, x, prec) ==
  LET r == IF prec = PrecisionAuto \/ prec = PrecisionBalanced THEN csc5Term(f, x)
           ELSE IF prec = PrecisionFast THEN csc3Term(f, x)
           ELSE IF prec = PrecisionHigh THEN csc7Term(f, x)
           ELSE csc5Term(f, x)
  IN IF IsInf(r.v, 0) THEN Ret(NaN, r.tr) ELSE r

Csc(f, x, prec) ==
  IF prec = PrecisionAuto \/ prec = PrecisionBalanced THEN csc5Term(f, x)
  ELSE IF prec = PrecisionFast THEN csc3Term(f, x)
  ELSE IF prec = PrecisionHigh THEN csc7Term(f, x)
  ELSE csc5Term(f, x)

---------------------------------------------------------------------------
\* Tangent and cotangent.

\* The reduction shared by every tanNTerm: [xf, sign, reciprocal].
\* tanReduce without the sign flag: the fold onto [0, pi/2] keeps sign = 1.
tanReduceNoSign(x) ==
  LET m0 == MathMod(x, Pi)
      x0 == IF Lt(m0, Zero(0)) THEN Add(F64, m0, Pi) ELSE m0
      fold == Gt(x0, PiHalf)
      x1 == IF fold THEN Sub(F64, PiHalf, Sub(F64, x0, PiHalf)) ELSE x0
      rec == Gt(x1, PiQuarter)
  IN [xf |-> IF rec THEN Sub(F64, PiHalf, x1) ELSE x1,
      sign |-> One,
      reciprocal |-> rec]

tanReduce(x) ==
  LET m0 == MathMod(x, Pi)
      x0 == IF Lt(m0, Zero(0)) THEN Add(F64, m0, Pi) ELSE m0
      fold == Gt(x0, PiHalf)
      x1 == IF fold THEN Sub(F64, PiHalf, Sub(F64, x0, PiHalf)) ELSE x0
      rec == Gt(x1, PiQuarter)
  IN [xf |-> IF rec THEN Sub(F64, PiHalf, x1) ELSE x1,
      sign |-> IF fold THEN Neg(One) ELSE One,
      reciprocal |-> rec]

\* xf + x3/3 + 2*x5/15 + 17*x7/315 + 62*x9/2835 + 1382*x11/155925.
tanPoly(xf, terms) ==
  LET x2 == Mul(F64, xf, xf)
      x3 == Mul(F64, xf, x2)
      x5 == Mul(F64, x3, x2)
      x7 == Mul(F64, x5, x2)
      x9 == Mul(F64, x7, x2)
      x11 == Mul(F64, x9, x2)
      t2 == Add(F64, xf, Div(F64, x3, K(3)))
      t3 == Add(F64, t2, Div(F64, Mul(F64, K(2), x5), K(15)))
      t4 == Add(F64, t3, Div(F64, Mul(F64, K(17), x7), K(315)))
      t5 == Add(F64, t4, Div(F64, Mul(F64, K(62), x9), K(2835)))
      t6 == Add(F64, t5, Div(F64, Mul(F64, K(1382), x11), K(155925)))
  IN CASE terms = 2 -> t2
       [] terms = 3 -> t3
       [] terms = 4 -> t4
       [] OTHER -> t6

tanNTerm(f, x, terms) ==
  LET rd == tanReduce(x)
      p == tanPoly(rd.xf, terms)
      result == IF rd.reciprocal THEN Div(F64, One, p) ELSE p
  IN Ret(Conv(f, Mul(F64, rd.sign, result)),
         <<"tanReduce", "tanPoly">> \o Rep("tanTerm", terms))

tan2Term(f, x) == tanNTerm(f, x, 2)
tan3Term(f, x) == tanNTerm(f, x, 3)
tan4Term(f, x) == tanNTerm(f, x, 4)
tan6Term(f, x) == tanNTerm(f, x, 6)

cotan2Term(f, x) == Reciprocal(f, tan2Term(f, x))
cotan3Term(f, x) == Reciprocal(f, tan3Term(f, x))
cotan4Term(f, x) == Reciprocal(f, tan4Term(f, x))
cotan6Term(f, x) == Reciprocal(f, tan6Term(f, x))

\* Tan whose default case is the fastest kernel: Auto and unrecognised values
\* run tan2Term.
TanDefaultFast(f, x, prec) ==
  IF prec = PrecisionFast THEN tan2Term(f, x)
  ELSE IF prec = PrecisionBalanced THEN tan3Term(f, x)
  ELSE IF prec = PrecisionHigh THEN tan6Term(f, x)
  ELSE tan2Term(f, x)

Tan(f, x, prec) ==
  IF prec = PrecisionFast THEN tan2Term(f, x)
  ELSE IF prec = PrecisionBalanced THEN tan3Term(f, x)
  ELSE IF prec = PrecisionHigh THEN tan6Term(f, x)
  ELSE tan3Term(f, x)

\* Cotan with the four-term kernel at High.
CotanHighFour(f, x, prec) ==
  IF prec = PrecisionFast THEN cotan2Term(f, x)
  ELSE IF prec = PrecisionBalanced THEN cotan3Term(f, x)
  ELSE IF prec = PrecisionHigh THEN cotan4Term(f, x)
  ELSE cotan3Term(f, x)

Cotan(f, x, prec) ==
  IF prec = PrecisionFast THEN cotan2Term(f, x)
  ELSE IF prec = PrecisionBalanced THEN cotan3Term(f, x)
  ELSE IF prec = PrecisionHigh THEN cotan6Term(f, x)
  ELSE cotan3Term(f, x)

---------------------------------------------------------------------------
\* Arctangent, arccotangent, arccosine: evaluated in the scalar width T.

\* x - x3/3 + x5/5 - x7/7 + x9/9 - x11/11, cut after `terms` terms.
arctanPoly(f, x, terms) ==
  LET x2 == Mul(f, x, x)
      x3 == Mul(f, x2, x)
      x5 == Mul(f, x3, x2)
      x7 == Mul(f, x5, x2)
      x9 == Mul(f, x7, x2)
      x11 == Mul(f, x9, x2)
      t3 == Add(f, Sub(f, x, Div(f, x3, FromInt(f, 3))), Div(f, x5, FromInt(f, 5)))
      t4 == Sub(f, t3, Div(f, x7, FromInt(f, 7)))
      t5 == Add(f, t4, Div(f, x9, FromInt(f, 9)))
      t6 == Sub(f, t5, Div(f, x11, FromInt(f, 11)))
  IN IF terms = 3 THEN t3 ELSE t6

arctan3Term(f, x) == Ret(arctanPoly(f, x, 3), <<"arctanPoly">>)
arctan6Term(f, x) == Ret(arctanPoly(f, x, 6), <<"arctanPoly">>)

PiHalfT(f) == Div(f, Conv(f, Pi), FromInt(f, 2))

arccotan3Term(f, x) ==
  Ret(Sub(f, PiHalfT(f), arctan3Term(f, x).v), <<"arctanPoly", "complement">>)
arccotan6Term(f, x) ==
  Ret(Sub(f, PiHalfT(f), arctan6Term(f, x).v), <<"arctanPoly", "complement">>)

\* x + x3/6 + 3*x5/40 + 15*x7/336 + 105*x9/3456 + 945*x11/42240.
arcsinPoly(f, x, terms) ==
  LET x2 == Mul(f, x, x)
      x3 == Mul(f, x2, x)
      x5 == Mul(f, x3, x2)
      x7 == Mul(f, x5, x2)
      x9 == Mul(f, x7, x2)
      x11 == Mul(f, x9, x2)
      t3 == Add(f, Add(f, x, Div(f, x3, FromInt(f, 6))),
                Div(f, Mul(f, FromInt(f, 3), x5), FromInt(f, 40)))
      t4 == Add(f, t3, Div(f, Mul(f, FromInt(f, 15), x7), FromInt(f, 336)))
      t5 == Add(f, t4, Div(f, Mul(f, FromInt(f, 105), x9), FromInt(f, 3456)))
      t6 == Add(f, t5, Div(f, Mul(f, FromInt(f, 945), x11), FromInt(f, 42240)))
  IN IF terms = 3 THEN t3 ELSE t6

\* The series argument chosen by arccosNTerm.
arccosArg(f, x) ==
  IF Gt(x, Neg(Half)) /\ Lt(x, Half) THEN x
  ELSE Conv(f, MathSqrt(Div(f, Sub(f, One, x), FromInt(f, 2))))

\* arccosNTerm with a domain guard: everything not inside [-1, 1] returns 0.
arccosNTermGuarded(f, x, terms) ==
  IF ~(Le(Neg(One), x) /\ Le(x, One)) THEN Ret(Zero(0), <<>>)
  ELSE IF Gt(x, Neg(Half)) /\ Lt(x, Half)
  THEN Ret(Sub(f, PiHalfT(f), arcsinPoly(f, x, terms)), <<"arcsinPoly", "complement">>)
  ELSE Ret(Mul(f, FromInt(f, 2), arcsinPoly(f, arccosArg(f, x), terms)),
           <<"halfAngle", "arcsinPoly">>)

arccosNTerm(f, x, terms) ==
  IF Gt(x, Neg(Half)) /\ Lt(x, Half)
  THEN Ret(Sub(f, PiHalfT(f), arcsinPoly(f, x, terms)), <<"arcsinPoly", "complement">>)
  ELSE Ret(Mul(f, FromInt(f, 2), arcsinPoly(f, arccosArg(f, x), terms)),
           <<"halfAngle", "arcsinPoly">>)

arccos3Term(f, x) == arccosNTerm(f, x, 3)
arccos6Term(f, x) == arccosNTerm(f, x, 6)

Arctan(f, x, prec) ==
  IF prec \in {PrecisionAuto, PrecisionFast, PrecisionBalanced} THEN arctan3Term(f, x)
  ELSE IF prec = PrecisionHigh THEN arctan6Term(f, x)
  ELSE arctan3Term(f, x)

Arccotan(f, x, prec) ==
  IF prec \in {PrecisionAuto, PrecisionFast, PrecisionBalanced} THEN arccotan3Term(f, x)
  ELSE IF prec = PrecisionHigh THEN arccotan6Term(f, x)
  ELSE arccotan3Term(f, x)

Arccos(f, x, prec) ==
  IF prec \in {PrecisionAuto, PrecisionFast, PrecisionBalanced} THEN arccos3Term(f, x)
  ELSE IF prec = PrecisionHigh THEN arccos6Term(f, x)
  ELSE arccos3Term(f, x)

---------------------------------------------------------------------------
\* Power and Root (internal/approx/power.go).

\* The fixed-tier kernels power.go composes: Ln, Exp and Sqrt2 are called
\* without a precision and evaluate the Log, Exp and Sqrt kernels at the
\* default tier.
Ln(f, x) == Log(f, x, PrecisionAuto)
Exp1(f, x) == Exp(f, x, PrecisionAuto)
Sqrt2(f, x) == Sqrt(f, x, PrecisionAuto)

\* Power testing the exponent before the base: a negative base to the power 0 is 1.
PowerExponentFirst(f, base, exponent) ==
  IF Eq(exponent, Zero(0)) THEN Ret(One, <<>>)
  ELSE IF Le(base, Zero(0))
  THEN IF Lt(base, Zero(0)) THEN Ret(NaN, <<>>)
       ELSE IF Gt(exponent, Zero(0)) THEN Ret(Zero(0), <<>>)
       ELSE Ret(Inf(0), <<>>)
  ELSE IF Eq(exponent, One) THEN Ret(base, <<>>)
  ELSE
    LET l == Ln(f, base)
        r == Exp1(f, Mul(f, exponent, l.v))
    IN Ret(r.v, <<"Ln">> \o l.tr \o <<"Exp">> \o r.tr)

\* Power without the logarithm: Exp(exponent * base).
PowerNoLn(f, base, exponent) ==
  IF Le(base, Zero(0))
  THEN IF Lt(base, Zero(0)) THEN Ret(NaN, <<>>)
       ELSE IF Eq(exponent, Zero(0)) THEN Ret(One, <<>>)
       ELSE IF Gt(exponent, Zero(0)) THEN Ret(Zero(0), <<>>)
       ELSE Ret(Inf(0), <<>>)
  ELSE IF Eq(exponent, Zero(0)) THEN Ret(One, <<>>)
  ELSE IF Eq(exponent, One) THEN Ret(base, <<>>)
  ELSE
    LET r == Exp1(f, Mul(f, exponent, base))
    IN Ret(r.v, <<"Ln", "Exp">> \o r.tr)

Power(f, base, exponent) ==
  IF Le(base, Zero(0))
  THEN IF Lt(base, Zero(0)) THEN Ret(NaN, <<>>)
       ELSE IF Eq(exponent, Zero(0)) THEN Ret(One, <<>>)
       ELSE IF Gt(exponent, Zero(0)) THEN Ret(Zero(0), <<>>)
       ELSE Ret(Inf(0), <<>>)
  ELSE IF Eq(exponent, Zero(0)) THEN Ret(One, <<>>)
  ELSE IF Eq(exponent, One) THEN Ret(base, <<>>)
  ELSE
    LET l == Ln(f, base)
        r == Exp1(f, Mul(f, exponent, l.v))
    IN Ret(r.v, <<"Ln">> \o l.tr \o <<"Exp">> \o r.tr)

\* Root testing the sign of value before n = 1: Root(-2, 1) is NaN.
RootNegativeFirst(f, value, n) ==
  IF n = 0 THEN Ret(NaN, <<>>)
  ELSE IF Lt(value, Zero(0)) THEN Ret(NaN, <<>>)
  ELSE IF n = 1 THEN Ret(value, <<>>)
  ELSE IF Eq(value, Zero(0)) THEN Ret(Zero(0), <<>>)
  ELSE IF n = 2
       THEN LET r == Sqrt2(f, value) IN Ret(r.v, <<"Sqrt2">> \o r.tr)
  ELSE LET r == Power(f, value, Div(f, One, FromInt(f, n)))
       IN Ret(r.v, <<"Power">> \o r.tr)

Root(f, value, n) ==
  IF n = 0 THEN Ret(NaN, <<>>)
  ELSE IF n = 1 THEN Ret(value, <<>>)
  ELSE IF Lt(value, Zero(0)) THEN Ret(NaN, <<>>)
  ELSE IF Eq(value, Zero(0)) THEN Ret(Zero(0), <<>>)
  ELSE IF n = 2
       THEN LET r == Sqrt2(f, value) IN Ret(r.v, <<"Sqrt2">> \o r.tr)
  ELSE LET r == Power(f, value, Div(f, One, FromInt(f, n)))
       IN Ret(r.v, <<"Power">> \o r.tr)

---------------------------------------------------------------------------
\* The calls.  One call at a time is evaluated: the kernels share no state.

\* Bounds of the explored inputs.
MaxPrec == 4
MaxExponent == 10
MaxRootN == 4
IntBits == 8
MaxDepth == 3

Widths == {32, 64}
Precs == -1 .. MaxPrec

\* The machine integer: the most negative value, and negation with wrap-around.
MinInt == -(2^(IntBits - 1))
NegInt(e) == IF e = MinInt THEN MinInt ELSE -e

Exponents == {MinInt} \cup (-MaxExponent .. MaxExponent)
RootNs == -MaxRootN .. MaxRootN

\* Finite inputs as <<sign, m, e>>: s * m * 2^e, rounded to the width.
FiniteInputs ==
  { <<0, 1, 0>>, <<1, 1, 0>>, <<0, 1, 1>>, <<1, 1, 1>>, <<0, 3, 0>>, <<1, 3, 0>>,
    <<0, 1, 2>>, <<0, 1, -1>>, <<1, 1, -1>>, <<0, 1, -2>>, <<0, 3, -2>>,
    <<1, 3, -2>>, <<0, 3, -1>>, <<0, 5, 1>>, <<0, 1, 4>>, <<0, 25, 2>>,
    <<0, 2731, -13>>, <<0, 25, 5>>, <<1, 25, 5>>, <<0, 3, -130>>,
    <<0, 3, -1030>>, <<0, 1, 1000>>, <<0, 133, -6>>, <<1, 45, 4>>,
    <<0, 2839, -2>>,
    <<0, 1, F32.emin - FracBits32>>, <<0, 2^(FracBits32 + 1) - 1, F32.emax - FracBits32>>,
    <<0, 1, F64.emin - FracBits64>>, <<0, 2^(FracBits64 + 1) - 1, F64.emax - FracBits64>> }

Specials == {NaN, Inf(0), Inf(1), Zero(0), Zero(1)}

Inputs(w) == Specials \cup { Round(Fmt(w), t[1], t[2], t[3], FALSE) : t \in FiniteInputs }

VARIABLES
  pc,           \* "idle", "done"; inside IntPower: "entry", "loop", "unwind"; "overflow"
  op,           \* the operation called
  api,          \* how it was called: "internal", or the public "FastXPrec" / "FastX"
  arg,          \* the precision the caller gave (prec: the one the kernel receives)
  width,        \* the scalar width T of the call: 32 or 64
  x, y,         \* the scalar arguments (y: Power's exponent)
  n,            \* the integer argument (Root's n, IntPower's exponent)
  prec,         \* the precision argument
  res,          \* the value returned
  tr,           \* the steps the call ran, in order
  cur, depth,   \* IntPower: the exponent of the current frame, pending reciprocal frames
  result, currentBase, cnt,  \* IntPower: the loop's locals (cnt is the loop's n)
  frames,       \* concurrent calls: the arguments and locals of each goroutine's call
  returned,     \* concurrent calls: the arguments and value of every return so far
  pkg           \* the package-level variables

\* The state of the call made by a single caller.
calls == <<pc, op, api, arg, width, x, y, n, prec, res, tr, cur, depth, result, currentBase, cnt>>

\* The state of the calls made by concurrent goroutines.
conc == <<frames, returned, pkg>>

vars == <<calls, conc>>

locals == <<cur, depth, result, currentBase, cnt>>

NumGoroutines == 2

Goroutines == 1 .. NumGoroutines

\* A goroutine that is not inside a call.
IdleFrame ==
  [pc |-> "idle", op |-> "none", x |-> Zero(0), n |-> 0, prec |-> PrecisionAuto,
   cur |-> 0, depth |-> 0, result |-> Zero(0), currentBase |-> Zero(0),
   cnt |-> 0, res |-> Zero(0)]

\* The package-level variables after initialisation.
PackageVars ==
  [ErrDomainError |-> "input outside valid domain",
   ErrNaN |-> "result is not a number",
   ErrInfinity |-> "result is infinite"]

Init ==
  /\ pc = "idle"
  /\ op = "none"
  /\ api = "none"
  /\ arg = PrecisionAuto
  /\ width = 64
  /\ x = Zero(0)
  /\ y = Zero(0)
  /\ n = 0
  /\ prec = PrecisionAuto
  /\ res = Zero(0)
  /\ tr = <<>>
  /\ cur = 0
  /\ depth = 0
  /\ result = Zero(0)
  /\ currentBase = Zero(0)
  /\ cnt = 0
  /\ frames = [p \in Goroutines |-> IdleFrame]
  /\ returned = {}
  /\ pkg = PackageVars

\* A call of a kernel taking a scalar and a precision.
Call1(name, Kernel(_, _, _)) ==
  /\ pc = "idle"
  /\ \E w \in Widths : \E v \in Inputs(w) : \E p \in Precs :
       LET r == Kernel(Fmt(w), v, p)
       IN /\ width' = w
          /\ x' = v
          /\ prec' = p
          /\ arg' = p
          /\ res' = r.v
          /\ tr' = r.tr
  /\ op' = name
  /\ api' = "internal"
  /\ pc' = "done"
  /\ UNCHANGED <<y, n, locals, conc>>

CallSqrt == Call1("Sqrt", Sqrt)
CallInvSqrt == Call1("InvSqrt", InvSqrt)
CallLog == Call1("Log", Log)
CallExp == Call1("Exp", Exp)
CallSin == Call1("Sin", Sin)
CallCos == Call1("Cos", Cos)
CallSec == Call1("Sec", Sec)
CallCsc == Call1("Csc", Csc)
CallTan == Call1("Tan", Tan)
CallCotan == Call1("Cotan", Cotan)
CallArctan == Call1("Arctan", Arctan)
CallArccotan == Call1("Arccotan", Arccotan)
CallArccos == Call1("Arccos", Arccos)

\* A call of a public FastXPrec(x, prec), or of FastX(x), which calls
\* FastXPrec(x, PrecisionAuto).
FastCall1(name, Kernel(_, _, _)) ==
  /\ pc = "idle"
  /\ \E w \in Widths : \E v \in Inputs(w) : \E form \in {"FastXPrec", "FastX"} :
       \E p \in (IF form = "FastX" THEN {PublicPrecisionAuto} ELSE Precs) :
         LET kp == ToInternalPrecision(PublicNormalizePrecision(p))
             r == Kernel(Fmt(w), v, kp)
         IN /\ width' = w
            /\ x' = v
            /\ api' = form
            /\ arg' = p
            /\ prec' = kp
            /\ res' = r.v
            /\ tr' = r.tr
  /\ op' = name
  /\ pc' = "done"
  /\ UNCHANGED <<y, n, locals, conc>>


\* A call of a composition taking two scalars.
Call2(name, Kernel(_, _, _)) ==
  /\ pc = "idle"
  /\ \E w \in Widths : \E b \in Inputs(w) : \E ex \in Inputs(w) :
       LET r == Kernel(Fmt(w), b, ex)
       IN /\ width' = w
          /\ x' = b
          /\ y' = ex
          /\ res' = r.v
          /\ tr' = r.tr
  /\ op' = name
  /\ api' = "internal"
  /\ pc' = "done"
  /\ UNCHANGED <<n, prec, arg, locals, conc>>

\* A call of a composition taking a scalar and an integer.
CallN(name, Kernel(_, _, _)) ==
  /\ pc = "idle"
  /\ \E w \in Widths : \E v \in Inputs(w) : \E k \in RootNs :
       LET r == Kernel(Fmt(w), v, k)
       IN /\ width' = w
          /\ x' = v
          /\ n' = k
          /\ res' = r.v
          /\ tr' = r.tr
  /\ op' = name
  /\ api' = "internal"
  /\ pc' = "done"
  /\ UNCHANGED <<y, prec, arg, locals, conc>>

CallPower == Call2("Power", Power)
CallRoot == CallN("Root", Root)

\* IntPower(base, exponent) is entered.
CallIntPower ==
  /\ pc = "idle"
  /\ \E w \in Widths : \E b \in Inputs(w) : \E ex \in Exponents :
       /\ width' = w
       /\ x' = b
       /\ n' = ex
       /\ cur' = ex
  /\ op' = "IntPower"
  /\ api' = "internal"
  /\ depth' = 0
  /\ pc' = "entry"
  /\ UNCHANGED <<y, prec, arg, res, tr, result, currentBase, cnt, conc>>

\* The special cases of one IntPower frame, down to the loop's initialisation.
IntPowerEntry ==
  /\ pc = "entry"
  /\ IF cur = 0
     THEN /\ res' = One
          /\ pc' = "unwind"
          /\ UNCHANGED <<cur, depth, result, currentBase, cnt>>
     ELSE IF cur = 1
     THEN /\ res' = x
          /\ pc' = "unwind"
          /\ UNCHANGED <<cur, depth, result, currentBase, cnt>>
     ELSE IF Eq(x, Zero(0))
     THEN /\ res' = IF cur > 0 THEN Zero(0) ELSE Inf(0)
          /\ pc' = "unwind"
          /\ UNCHANGED <<cur, depth, result, currentBase, cnt>>
     ELSE IF cur < 0
     THEN IF depth >= MaxDepth
          THEN /\ pc' = "overflow"
               /\ UNCHANGED <<res, cur, depth, result, currentBase, cnt>>
          ELSE /\ cur' = NegInt(cur)
               /\ depth' = depth + 1
               /\ pc' = "entry"
               /\ UNCHANGED <<res, result, currentBase, cnt>>
     ELSE /\ result' = One
          /\ currentBase' = x
          /\ cnt' = cur
          /\ pc' = "loop"
          /\ UNCHANGED <<res, cur, depth>>
  /\ UNCHANGED <<op, api, arg, width, x, y, n, prec, tr, conc>>

\* IntPowerLoop counting the exponent down by one instead of halving it.
IntPowerLoopLinear ==
  /\ pc = "loop"
  /\ IF cnt > 0
     THEN /\ result' = Mul(Fmt(width), result, currentBase)
          /\ cnt' = cnt - 1
          /\ tr' = Append(tr, "square")
          /\ UNCHANGED <<pc, res, currentBase>>
     ELSE /\ res' = result
          /\ pc' = "unwind"
          /\ UNCHANGED <<result, currentBase, cnt, tr>>
  /\ UNCHANGED <<op, api, arg, width, x, y, n, prec, cur, depth, conc>>

\* One test of `n > 0` and, when it holds, one iteration of the squaring loop.
IntPowerLoop ==
  /\ pc = "loop"
  /\ IF cnt > 0
     THEN /\ result' = IF cnt % 2 = 1 THEN Mul(Fmt(width), result, currentBase) ELSE result
          /\ currentBase' = Mul(Fmt(width), currentBase, currentBase)
          /\ cnt' = cnt \div 2
          /\ tr' = Append(tr, "square")
          /\ UNCHANGED <<pc, res>>
     ELSE /\ res' = result
          /\ pc' = "unwind"
          /\ UNCHANGED <<result, currentBase, cnt, tr>>
  /\ UNCHANGED <<op, api, arg, width, x, y, n, prec, cur, depth, conc>>

\* A frame returns: to the caller's `1 / IntPower(base, -exponent)`, or to the user.
IntPowerReturn ==
  /\ pc = "unwind"
  /\ IF depth > 0
     THEN /\ res' = Div(Fmt(width), One, res)
          /\ depth' = depth - 1
          /\ UNCHANGED pc
     ELSE /\ pc' = "done"
          /\ UNCHANGED <<res, depth>>
  /\ UNCHANGED <<op, api, arg, width, x, y, n, prec, tr, cur, result, currentBase, cnt, conc>>

\* The caller takes the result; the next call starts from nothing.
Return ==
  /\ pc = "done"
  /\ pc' = "idle"
  /\ op' = "none"
  /\ api' = "none"
  /\ arg' = PrecisionAuto
  /\ width' = 64
  /\ x' = Zero(0)
  /\ y' = Zero(0)
  /\ n' = 0
  /\ prec' = PrecisionAuto
  /\ res' = Zero(0)
  /\ tr' = <<>>
  /\ cur' = 0
  /\ depth' = 0
  /\ result' = Zero(0)
  /\ currentBase' = Zero(0)
  /\ cnt' = 0
  /\ UNCHANGED conc

Next ==
  \/ CallSqrt
  \/ CallInvSqrt
  \/ CallLog
  \/ CallExp
  \/ CallSin
  \/ CallCos
  \/ CallSec
  \/ CallCsc
  \/ CallTan
  \/ CallCotan
  \/ CallArctan
  \/ CallArccotan
  \/ CallArccos
  \/ FastCall1("Sqrt", Sqrt)
  \/ FastCall1("InvSqrt", InvSqrt)
  \/ FastCall1("Log", Log)
  \/ FastCall1("Exp", Exp)
  \/ FastCall1("Sin", Sin)
  \/ FastCall1("Cos", Cos)
  \/ FastCall1("Sec", Sec)
  \/ FastCall1("Csc", Csc)
  \/ FastCall1("Tan", Tan)
  \/ FastCall1("Cotan", Cotan)
  \/ FastCall1("Arctan", Arctan)
  \/ FastCall1("Arccotan", Arccotan)
  \/ FastCall1("Arccos", Arccos)
  \/ CallPower
  \/ CallRoot
  \/ CallIntPower
  \/ IntPowerEntry
  \/ IntPowerLoop
  \/ IntPowerReturn
  \/ Return

Spec == Init /\ [][Next]_vars

\* ---------------------------------------------------------------------------
\* Concurrent callers: each goroutine calls IntPower (whose loop is stepped) or
\* Sqrt with its own arguments and locals; steps of different goroutines
\* interleave.

GoExponents == {3, -2}

\* What a goroutine in "done" hands to its caller, with the arguments it got.
ReturnOf(f) == [op |-> f.op, x |-> f.x, n |-> f.n, prec |-> f.prec, res |-> f.res]

\* A goroutine calls IntPower.
GoCallIntPower ==
  /\ \E p \in Goroutines : \E b \in {ThreeHalf} : \E ex \in GoExponents :
       /\ frames[p].pc = "idle"
       /\ frames' = [frames EXCEPT ![p] =
            [IdleFrame EXCEPT !.pc = "entry", !.op = "IntPower", !.x = b,
                              !.n = ex, !.cur = ex]]
  /\ UNCHANGED <<returned, pkg, calls>>

\* GoIntPowerEntry with the loop's variables at package level: initialising
\* them writes the variables every goroutine's loop uses.
GoIntPowerEntryShared ==
  /\ \E p \in Goroutines :
       LET f == frames[p]
       IN /\ f.pc = "entry"
          /\ frames' =
               IF f.cur = 0 THEN [frames EXCEPT ![p] = [f EXCEPT !.res = One, !.pc = "unwind"]]
               ELSE IF f.cur = 1 THEN [frames EXCEPT ![p] = [f EXCEPT !.res = f.x, !.pc = "unwind"]]
               ELSE IF Eq(f.x, Zero(0))
               THEN [frames EXCEPT ![p] =
                      [f EXCEPT !.res = IF f.cur > 0 THEN Zero(0) ELSE Inf(0), !.pc = "unwind"]]
               ELSE IF f.cur < 0
               THEN [frames EXCEPT ![p] = [f EXCEPT !.cur = NegInt(f.cur), !.depth = f.depth + 1]]
               ELSE [q \in Goroutines |->
                      [frames[q] EXCEPT !.result = One, !.currentBase = f.x, !.cnt = f.cur,
                                        !.pc = IF q = p THEN "loop" ELSE frames[q].pc]]
  /\ UNCHANGED <<returned, pkg, calls>>

\* The special cases of one IntPower frame, down to the loop's initialisation.
GoIntPowerEntry ==
  /\ \E p \in Goroutines :
       LET f == frames[p]
       IN /\ f.pc = "entry"
          /\ frames' = [frames EXCEPT ![p] =
               IF f.cur = 0 THEN [f EXCEPT !.res = One, !.pc = "unwind"]
               ELSE IF f.cur = 1 THEN [f EXCEPT !.res = f.x, !.pc = "unwind"]
               ELSE IF Eq(f.x, Zero(0))
               THEN [f EXCEPT !.res = IF f.cur > 0 THEN Zero(0) ELSE Inf(0), !.pc = "unwind"]
               ELSE IF f.cur < 0
               THEN [f EXCEPT !.cur = NegInt(f.cur), !.depth = f.depth + 1]
               ELSE [f EXCEPT !.result = One, !.currentBase = f.x, !.cnt = f.cur,
                              !.pc = "loop"]]
  /\ UNCHANGED <<returned, pkg, calls>>

\* One test of `n > 0` and, when it holds, one iteration of the squaring loop.
GoIntPowerLoop ==
  /\ \E p \in Goroutines :
       LET f == frames[p]
       IN /\ f.pc = "loop"
          /\ frames' = [frames EXCEPT ![p] =
               IF f.cnt > 0
               THEN [f EXCEPT !.result = IF f.cnt % 2 = 1
                                         THEN Mul(F64, f.result, f.currentBase)
                                         ELSE f.result,
                              !.currentBase = Mul(F64, f.currentBase, f.currentBase),
                              !.cnt = f.cnt \div 2]
               ELSE [f EXCEPT !.res = f.result, !.pc = "unwind"]]
  /\ UNCHANGED <<returned, pkg, calls>>

\* A frame returns: to the caller's `1 / IntPower(base, -exponent)`, or to the user.
GoIntPowerReturn ==
  /\ \E p \in Goroutines :
       LET f == frames[p]
           g == IF f.depth > 0
                THEN [f EXCEPT !.res = Div(F64, One, f.res), !.depth = f.depth - 1]
                ELSE [f EXCEPT !.pc = "done"]
       IN /\ f.pc = "unwind"
          /\ frames' = [frames EXCEPT ![p] = g]
          /\ returned' = IF g.pc = "done" THEN returned \cup {ReturnOf(g)} ELSE returned
  /\ UNCHANGED <<pkg, calls>>

\* A goroutine calls a kernel taking a scalar and a precision, which has no
\* step another goroutine could interleave with.
GoCall1(name, Kernel(_, _, _)) ==
  /\ \E p \in Goroutines : \E v \in {ThreeHalf} : \E q \in {PrecisionBalanced} :
       LET g == [IdleFrame EXCEPT !.pc = "done", !.op = name, !.x = v, !.prec = q,
                                  !.res = Kernel(F64, v, q).v]
       IN /\ frames[p].pc = "idle"
          /\ frames' = [frames EXCEPT ![p] = g]
          /\ returned' = returned \cup {ReturnOf(g)}
  /\ UNCHANGED <<pkg, calls>>

GoCallSqrt == GoCall1("Sqrt", Sqrt)

\* The caller takes the result; the frame is gone.
GoReturn ==
  /\ \E p \in Goroutines :
       /\ frames[p].pc = "done"
       /\ frames' = [frames EXCEPT ![p] = IdleFrame]
  /\ UNCHANGED <<returned, pkg, calls>>

NextConc ==
  \/ GoCallIntPower
  \/ GoIntPowerEntry
  \/ GoIntPowerLoop
  \/ GoIntPowerReturn
  \/ GoCallSqrt
  \/ GoReturn

SpecConc == Init /\ [][NextConc]_vars
---------------------------------------------------------------------------
\* Properties.  They read the state a call leaves: the arguments, the value
\* returned and the steps the call ran.

Done(name) == pc = "done" /\ op = name
F == Fmt(width)
IsNeg(v) == Lt(v, Zero(0))

\* C1: for every precision value and both widths, Sqrt and InvSqrt decide the
\* edge cases before the bit-level seed and before any refinement step: NaN
\* gives NaN from both; every negative input, -Inf included, gives NaN from
\* both; zero gives 0 from Sqrt and +Inf from InvSqrt; +Inf gives +Inf from
\* Sqrt and 0 from InvSqrt.
C1_SqrtInvSqrtEdgeCases ==
  /\ Done("Sqrt") =>
       /\ IsNaN(x) => (IsNaN(res) /\ tr = <<>>)
       /\ IsNeg(x) => (IsNaN(res) /\ tr = <<>>)
       /\ IsZero(x) => (res = Zero(0) /\ tr = <<>>)
       /\ x = Inf(0) => (res = Inf(0) /\ tr = <<>>)
  /\ Done("InvSqrt") =>
       /\ IsNaN(x) => (IsNaN(res) /\ tr = <<>>)
       /\ IsNeg(x) => (IsNaN(res) /\ tr = <<>>)
       /\ IsZero(x) => (res = Inf(0) /\ tr = <<>>)
       /\ x = Inf(0) => (res = Zero(0) /\ tr = <<>>)

\* Sqrt of +Inf returned +Inf at an unrecognised precision, with no step run.
C1_Witness ==
  /\ Done("Sqrt")
  /\ ~IsValid(prec)
  /\ width = 32
  /\ x = Inf(0)
  /\ res = Inf(0)
  /\ tr = <<>>

\* C2: for every precision value and both widths, Log returns NaN for NaN,
\* -Inf for zero, NaN for every negative input (-Inf included) and +Inf for
\* +Inf, each before the bit extraction and the series.
C2_LogEdgeCases ==
  Done("Log") =>
    /\ IsNaN(x) => (IsNaN(res) /\ tr = <<>>)
    /\ IsZero(x) => (res = Inf(1) /\ tr = <<>>)
    /\ IsNeg(x) => (IsNaN(res) /\ tr = <<>>)
    /\ x = Inf(0) => (res = Inf(0) /\ tr = <<>>)

\* Log of a zero returned -Inf with no step run.
C2_Witness ==
  /\ Done("Log")
  /\ x = Zero(1)
  /\ prec = PrecisionHigh
  /\ res = Inf(1)
  /\ tr = <<>>

\* C3: for every precision value and both widths, Exp returns NaN for NaN,
\* +Inf for +Inf and 0 for -Inf, each before the range reduction.
C3_ExpEdgeCases ==
  Done("Exp") =>
    /\ IsNaN(x) => (IsNaN(res) /\ tr = <<>>)
    /\ x = Inf(0) => (res = Inf(0) /\ tr = <<>>)
    /\ x = Inf(1) => (res = Zero(0) /\ tr = <<>>)

\* Exp of -Inf returned 0 with no step run.
C3_Witness ==
  /\ Done("Exp")
  /\ x = Inf(1)
  /\ res = Zero(0)
  /\ tr = <<>>

TrigOps ==
  {"Sin", "Cos", "Sec", "Csc", "Tan", "Cotan", "Arctan", "Arccotan", "Arccos"}

\* C4: for every precision value, Sin, Cos, Sec, Csc, Tan, Cotan, Arctan,
\* Arccotan and Arccos return NaN for a NaN input: the NaN goes through the
\* reduction, the comparisons, the polynomial and the reciprocal or
\* complement, which all run.
C4_TrigNaN ==
  (pc = "done" /\ op \in TrigOps /\ IsNaN(x)) => (IsNaN(res) /\ tr # <<>>)

\* Arccos of NaN took the half-angle branch and returned NaN.
C4_Witness ==
  /\ Done("Arccos")
  /\ IsNaN(x)
  /\ IsNaN(res)
  /\ tr = <<"halfAngle", "arcsinPoly">>

\* C5: the compositions propagate NaN: Power returns NaN whenever base or
\* exponent is NaN, Root whenever value is NaN, IntPower whenever base is NaN,
\* for every value of the other argument.
C5_CompositionNaN ==
  /\ (Done("Power") /\ (IsNaN(x) \/ IsNaN(y))) => IsNaN(res)
  /\ (Done("Root") /\ IsNaN(x)) => IsNaN(res)
  /\ (Done("IntPower") /\ IsNaN(x)) => IsNaN(res)

\* C5, the part that holds: Root returns NaN for a NaN value whatever n is.
C5_RootNaN == (Done("Root") /\ IsNaN(x)) => IsNaN(res)

\* C6: Power returns NaN for every negative base whatever the exponent; for a
\* zero base it returns 1 for exponent 0, 0 for a positive exponent and +Inf
\* for a negative exponent; all decided before Log or Exp is evaluated.
C6_PowerNonPositiveBase ==
  Done("Power") =>
    /\ IsNeg(x) => (IsNaN(res) /\ tr = <<>>)
    /\ IsZero(x) =>
         /\ Eq(y, Zero(0)) => (res = One /\ tr = <<>>)
         /\ Gt(y, Zero(0)) => (res = Zero(0) /\ tr = <<>>)
         /\ Lt(y, Zero(0)) => (res = Inf(0) /\ tr = <<>>)

\* Power of a negative base with exponent 0 returned NaN.
C6_Witness ==
  /\ Done("Power")
  /\ IsNeg(x)
  /\ IsZero(y)
  /\ IsNaN(res)
  /\ tr = <<>>

\* C7: Root decides its special cases in this order: n = 0 gives NaN for
\* every value; n = 1 gives the value itself for every value; a negative
\* value gives NaN for every other n, odd n included; and n = 2 with
\* value > 0 gives the square-root kernel's result, equal to FastSqrt(value).
C7_RootSpecialCases ==
  Done("Root") =>
    /\ n = 0 => (IsNaN(res) /\ tr = <<>>)
    /\ n = 1 => (res = x /\ tr = <<>>)
    /\ (n \notin {0, 1} /\ IsNeg(x)) => (IsNaN(res) /\ tr = <<>>)
    /\ (n = 2 /\ Gt(x, Zero(0))) => (res = FastSqrt(F, x).v /\ Head(tr) = "Sqrt2")

\* Root(4, 2) ran the square-root kernel and returned a finite value.
C7_Witness ==
  /\ Done("Root")
  /\ n = 2
  /\ x = Canon(0, 1, 2)
  /\ IsFin(res)
  /\ res = FastSqrt(F, x).v
  /\ Head(tr) = "Sqrt2"

\* C8: for every value >= 0 and every integer n outside {0, 1, 2}, negative n
\* and value = 0 included, Root(value, n) returns what Power(value, 1/n)
\* returns.
C8_RootIsPower ==
  (Done("Root") /\ Le(Zero(0), x) /\ n \notin {0, 1, 2}) =>
    res = Power(F, x, Div(F, One, FromInt(F, n))).v

\* C8, the part that holds: the same away from value = 0 with a negative n.
C8_RootIsPowerAwayFromZero ==
  (Done("Root") /\ Le(Zero(0), x) /\ n \notin {0, 1, 2} /\ ~(IsZero(x) /\ n < 0)) =>
    res = Power(F, x, Div(F, One, FromInt(F, n))).v

ValidPrecs == {PrecisionAuto, PrecisionFast, PrecisionBalanced, PrecisionHigh}

\* C9: for every base > 0 and every exponent, 0 and 1 included, Power returns
\* the value of Exp(exponent * Log(base)) computed with the approximate
\* kernels (at whichever tier).
C9_PowerIsExpLog ==
  (Done("Power") /\ Gt(x, Zero(0))) =>
    \E p \in ValidPrecs : \E q \in ValidPrecs :
      res = Exp(F, Mul(F, y, Log(F, x, p).v), q).v

\* C9 as amended: for base > 0, Power returns 1 for exponent 0 and the base
\* itself for exponent 1, both without evaluating Log or Exp; for every other
\* exponent it returns Exp(exponent * Ln(base)).
C9_PowerShortcuts ==
  (Done("Power") /\ Gt(x, Zero(0))) =>
    IF Eq(y, Zero(0)) THEN res = One /\ tr = <<>>
    ELSE IF Eq(y, One) THEN res = x /\ tr = <<>>
    ELSE /\ res = Exp1(F, Mul(F, y, Ln(F, x).v)).v
         /\ Head(tr) = "Ln"

\* Power(2, 3) went through Ln and Exp and returned a finite value.
C9_Witness ==
  /\ Done("Power")
  /\ x = Two
  /\ y = Canon(0, 3, 0)
  /\ IsFin(res)
  /\ Head(tr) = "Ln"

\* m^k over the integers.
RECURSIVE PowInt(_, _)
PowInt(m, k) == IF k <= 0 THEN 1 ELSE m * PowInt(m, k - 1)

\* v^k is a value of the width: no product on the way to it is rounded.
ExactlyRepresentable(v, k) ==
  /\ IsFin(v)
  /\ k >= 1
  /\ BitLen(v.m) * k <= F.fb + 1
  /\ v.e * k >= F.emin - F.fb
  /\ (v.e + BitLen(v.m)) * k - 1 <= F.emax

\* v multiplied by itself k times, exactly.
ExactPower(v, k) == Canon(IF k % 2 = 1 THEN v.s ELSE 0, PowInt(v.m, k), v.e * k)

\* C10, the values: IntPower(base, e) is 1 for e = 0 whatever the base, the
\* exact e-fold product for e > 0 when that product is representable
\* (IntPower(2, 10) = 1024), +Inf for base 0 and e < 0, and 1 / IntPower(base, -e)
\* for e < 0; inside the loop result * currentBase^n = base^e.
C10_IntPowerValues ==
  /\ Done("IntPower") =>
       /\ n = 0 => res = One
       /\ (n > 0 /\ ExactlyRepresentable(x, n)) => res = ExactPower(x, n)
       /\ (n < 0 /\ IsZero(x)) => res = Inf(0)
       /\ (n < 0 /\ ExactlyRepresentable(x, -n)) =>
            res = Div(F, One, ExactPower(x, -n))
       /\ (x = Two /\ n = 10) => res = Canon(0, 1024, 0)
  /\ (pc = "loop" /\ ExactlyRepresentable(x, cur)) =>
       IF cnt > 0
       THEN /\ IsFin(result)
            /\ IsFin(currentBase)
            /\ Canon((result.s + currentBase.s * cnt) % 2,
                     result.m * PowInt(currentBase.m, cnt),
                     result.e + currentBase.e * cnt) = ExactPower(x, cur)
       ELSE result = ExactPower(x, cur)

\* C10, the recursion: a negative exponent e is handled by a call on -e, a
\* positive exponent, whose frame runs the loop and returns.
C10_NegativeExponentFrame ==
  (op = "IntPower" /\ depth > 0) => (cur > 0 /\ depth = 1)

\* C10: for every base and every integer exponent e, IntPower(base, e) is the
\* e-fold product of base for e >= 0 (1 for e = 0) and 1 / IntPower(base, -e)
\* for e < 0 (+Inf for base 0), the loop keeping
\* result * currentBase^n = base^e.
C10_IntPower == C10_IntPowerValues /\ C10_NegativeExponentFrame

\* C11: IntPower terminates and returns for every base and every machine
\* exponent, the most negative one included: the recursion for a negative
\* exponent is one frame deep and that frame has a positive exponent, so the
\* call never exhausts the stack.
C11_IntPowerTerminates ==
  /\ pc # "overflow"
  /\ op = "IntPower" => depth <= 1
  /\ (op = "IntPower" /\ depth = 1 /\ pc = "entry") => cur > 0

\* C11, the part that holds: each iteration of the loop makes n smaller, and
\* n never goes below 0.
C11_LoopCounterDecreases ==
  [][(pc = "loop" /\ pc' = "loop") => (cnt' < cnt /\ cnt' >= 0)]_vars

PrecOps ==
  {"Sqrt", "InvSqrt", "Log", "Exp", "Sin", "Cos", "Sec", "Csc", "Tan", "Cotan",
   "Arctan", "Arccotan", "Arccos"}

\* C12: for every public precision-taking operation and every integer
\* precision p, the kernel receives Fast, Balanced or High: Auto and every
\* unrecognised value become Balanced, Fast / Balanced / High pass unchanged
\* (the two enumerations have the same integers), the default form FastX(x)
\* reaches the kernel with Balanced, and Auto never reaches a kernel.
C12_PublicPrecisionNormalized ==
  (pc = "done" /\ op \in PrecOps /\ api \in {"FastXPrec", "FastX"}) =>
    /\ prec \in {PrecisionFast, PrecisionBalanced, PrecisionHigh}
    /\ prec # PrecisionAuto
    /\ (arg = PublicPrecisionAuto \/ ~PublicIsValid(arg)) => prec = PrecisionBalanced
    /\ arg = PublicPrecisionFast => prec = PrecisionFast
    /\ arg = PublicPrecisionBalanced => prec = PrecisionBalanced
    /\ arg = PublicPrecisionHigh => prec = PrecisionHigh
    /\ api = "FastX" => prec = PrecisionBalanced

\* FastExp(x), the default form, ran the Exp kernel with Balanced.
C12_Witness ==
  /\ Done("Exp")
  /\ api = "FastX"
  /\ arg = PublicPrecisionAuto
  /\ prec = PrecisionBalanced
  /\ IsFin(res)

\* The number of times a step occurs in a trace.
Count(seq, step) == Cardinality({i \in DOMAIN seq : seq[i] = step})

\* The internal operation of a name.
KernelOf(name, f, v, p) ==
  CASE name = "Sqrt" -> Sqrt(f, v, p)
    [] name = "InvSqrt" -> InvSqrt(f, v, p)
    [] name = "Log" -> Log(f, v, p)
    [] name = "Exp" -> Exp(f, v, p)
    [] name = "Sin" -> Sin(f, v, p)
    [] name = "Cos" -> Cos(f, v, p)
    [] name = "Sec" -> Sec(f, v, p)
    [] name = "Csc" -> Csc(f, v, p)
    [] name = "Tan" -> Tan(f, v, p)
    [] name = "Cotan" -> Cotan(f, v, p)
    [] name = "Arctan" -> Arctan(f, v, p)
    [] name = "Arccotan" -> Arccotan(f, v, p)
    [] name = "Arccos" -> Arccos(f, v, p)

\* C13: for every internal precision-taking operation and every input,
\* Auto and every integer outside the enumeration select the implementation
\* that Balanced selects and return its result.
C13_AutoAndUnknownAreBalanced ==
  (pc = "done" /\ op \in PrecOps /\ api = "internal" /\
   prec \notin {PrecisionFast, PrecisionBalanced, PrecisionHigh}) =>
    LET b == KernelOf(op, F, x, PrecisionBalanced)
    IN res = b.v /\ tr = b.tr

\* Tan at the unrecognised precision -1 ran the three-term kernel.
C13_Witness ==
  /\ Done("Tan")
  /\ api = "internal"
  /\ prec = -1
  /\ x = One
  /\ Count(tr, "tanTerm") = 3
  /\ res = Tan(F, x, PrecisionBalanced).v

\* The number of refinement updates of a tier.
UpdatesAt(p) ==
  CASE p = PrecisionFast -> 1
    [] p = PrecisionBalanced -> 2
    [] p = PrecisionHigh -> 3

PositiveFinite(v) == IsFin(v) /\ v.s = 0

Tiers == {PrecisionFast, PrecisionBalanced, PrecisionHigh}

\* C14: for every positive finite input, Sqrt performs exactly 1, 2 and 3
\* Babylonian updates at Fast, Balanced and High, and InvSqrt exactly 1, 2 and
\* 3 Newton-Raphson updates: the trace holds the seed step and then that many
\* updates, and the result is the seed after exactly that many updates,
\* whatever the value of x.
C14_FixedUpdateCount ==
  /\ (Done("Sqrt") /\ PositiveFinite(x) /\ prec \in Tiers) =>
       LET y0 == sqrtInitialGuess(F, x)
           seed == IF Eq(y0, Zero(0)) THEN x ELSE y0
       IN /\ tr = <<"sqrtInitialGuess">> \o Rep("babylonian", UpdatesAt(prec))
          /\ res = BabylonianLoop(F, x, seed, UpdatesAt(prec))
  /\ (Done("InvSqrt") /\ PositiveFinite(x) /\ prec \in Tiers) =>
       /\ tr = <<"invSqrtQuake">> \o Rep("newton", UpdatesAt(prec))
       /\ res = NewtonLoop(F, x, invSqrtQuake(F, x), UpdatesAt(prec))

\* Sqrt of a positive finite input at Balanced ran two updates although the
\* first one had already left the seed unchanged.
C14_Witness ==
  /\ Done("Sqrt")
  /\ PositiveFinite(x)
  /\ prec = PrecisionBalanced
  /\ Count(tr, "babylonian") = 2
  /\ Eq(BabylonianLoop(F, x, sqrtInitialGuess(F, x), 1), sqrtInitialGuess(F, x))

\* The series lengths documented for a tier.
LogPowerAt(p) ==
  CASE p = PrecisionFast -> 3
    [] p = PrecisionBalanced -> 7
    [] p = PrecisionHigh -> 11

ExpDegreeAt(p) ==
  CASE p = PrecisionFast -> 3
    [] p = PrecisionBalanced -> 5
    [] p = PrecisionHigh -> 7

TrigTermsAt(p) ==
  CASE p = PrecisionFast -> 3
    [] p = PrecisionBalanced -> 5
    [] p = PrecisionHigh -> 7

\* C15: whenever the series of an operation is evaluated, its length is the
\* one documented for the tier: Log adds the odd powers of y through y^3 at
\* Fast, y^7 at Balanced and y^11 at High (one term after y for each odd power
\* from 3 on); Exp's polynomial has degree 3, 5 and 7; Sin and Cos, and Sec and
\* Csc through them, use 3, 5 and 7 terms.
C15_SeriesLengthByTier ==
  (pc = "done" /\ prec \in Tiers /\ tr # <<>>) =>
    /\ op = "Log" => 2 * Count(tr, "logTerm") + 1 = LogPowerAt(prec)
    /\ op = "Exp" => Count(tr, "expTerm") = ExpDegreeAt(prec)
    /\ op \in {"Sin", "Csc"} =>
         /\ Count(tr, "sinTerm") = TrigTermsAt(prec)
         /\ res = (IF op = "Sin" THEN sinNTerm(F, x, TrigTermsAt(prec)).v
                   ELSE Div(F, One, sinNTerm(F, x, TrigTermsAt(prec)).v))
    /\ op \in {"Cos", "Sec"} =>
         /\ Count(tr, "cosTerm") = TrigTermsAt(prec)
         /\ res = (IF op = "Cos" THEN cosNTerm(F, x, TrigTermsAt(prec)).v
                   ELSE Div(F, One, cosNTerm(F, x, TrigTermsAt(prec)).v))

\* Log of a positive finite input at High summed the five terms y^3 .. y^11.
C15_Witness ==
  /\ Done("Log")
  /\ PositiveFinite(x)
  /\ prec = PrecisionHigh
  /\ Count(tr, "logTerm") = 5
  /\ IsFin(res)

\* The term counts of the tangent kernels.
TanKernelTerms == {2, 3, 4, 6}

\* C16: Tan and Cotan select the tangent series with term counts 2, 3, 4 and
\* 6 for the tiers: each of the kernels tan2Term, tan3Term, tan4Term and
\* tan6Term is the one evaluated for some precision value passed to Tan (and
\* its reciprocal for some precision value passed to Cotan).
C16_TanFourKernels ==
  (pc = "done" /\ op \in {"Tan", "Cotan"}) =>
    \A k \in TanKernelTerms :
      \E p \in Precs :
        /\ Count(Tan(F, x, p).tr, "tanTerm") = k
        /\ Count(Cotan(F, x, p).tr, "tanTerm") = k

\* The term count the dispatch of Tan and Cotan selects.
TanTermsAt(p) ==
  CASE p = PrecisionFast -> 2
    [] p = PrecisionBalanced -> 3
    [] p = PrecisionHigh -> 6
    [] OTHER -> 3

\* C16 (amended): Tan and Cotan select the tangent series with term counts 2,
\* 3 and 6 at Fast, Balanced and High (3 for Auto and every other value); the
\* four-term kernel is evaluated for no precision value.
C16_TanThreeKernels ==
  (pc = "done" /\ op \in {"Tan", "Cotan"}) =>
    /\ Count(tr, "tanTerm") = TanTermsAt(prec)
    /\ Count(tr, "tanTerm") # 4
    /\ op = "Tan" => res = tanNTerm(F, x, TanTermsAt(prec)).v
    /\ op = "Cotan" => res = Div(F, One, tanNTerm(F, x, TanTermsAt(prec)).v)

\* Tan at High ran the six-term kernel, whose value differs from the
\* four-term kernel's.
C16_Witness ==
  /\ Done("Tan")
  /\ prec = PrecisionHigh
  /\ Count(tr, "tanTerm") = 6
  /\ res = tan6Term(F, x).v
  /\ res # tan4Term(F, x).v

\* The operation a reciprocal operation inverts.
BaseOf(name, f, v, p) ==
  CASE name = "Sec" -> Cos(f, v, p)
    [] name = "Csc" -> Sin(f, v, p)
    [] name = "Cotan" -> Tan(f, v, p)

\* C17: for every input and every precision value, recognised or not, Sec,
\* Csc and Cotan return exactly 1 divided by what Cos, Sin and Tan return for
\* the same input and precision, after running the base kernel with the steps
\* (and so the term count) the base operation runs; where the base value is a
\* zero the result is an infinity.
C17_ReciprocalOfBase ==
  (pc = "done" /\ op \in {"Sec", "Csc", "Cotan"}) =>
    LET b == BaseOf(op, F, x, prec)
    IN /\ res = Div(F, One, b.v)
       /\ tr = b.tr \o <<"reciprocal">>
       /\ IsZero(b.v) => IsInf(res, 0)

\* Cotan at an unrecognised precision where the tangent is 0: an infinity.
C17_Witness ==
  /\ Done("Cotan")
  /\ prec = -1
  /\ IsZero(Tan(F, x, prec).v)
  /\ IsInf(res, 0)

\* A finite input: zero or a finite non-zero value.
Finite(v) == IsFin(v) \/ IsZero(v)

Abs(v) == IF IsNaN(v) THEN v ELSE [v EXCEPT !.s = 0]

\* C18: for every finite x and every tier, the sine reduction maps -x to the
\* negation of the reduced argument of x, so Sin(-x) = -Sin(x); the cosine
\* reduction maps -x and x to the same reduced argument, so Cos(-x) = Cos(x).
C18_ExactSymmetry ==
  (pc = "done" /\ Finite(x)) =>
    /\ op = "Sin" =>
         /\ Eq(sinReduce(Neg(x)), Neg(sinReduce(x)))
         /\ Eq(Sin(F, Neg(x), prec).v, Neg(res))
    /\ op = "Cos" =>
         /\ Eq(cosReduce(Neg(x)), cosReduce(x))
         /\ Eq(Cos(F, Neg(x), prec).v, res)

\* The rounding error of the subtraction 2*pi - r for r in [0, pi].
ReduceUlp == Canon(0, 1, 1 - F64.fb)

\* C18 (amended): the sine reduction is odd and Sin(-x) = -Sin(x); the cosine
\* reductions of -x and x are equal when |x| mod 2*pi is 0 or exceeds pi, and
\* otherwise differ by at most the rounding error of the subtraction
\* 2*pi - r that only -x goes through; Cos(-x) = Cos(x) wherever the reduced
\* arguments are equal.
C18_SymmetryUpToRounding ==
  (pc = "done" /\ Finite(x)) =>
    /\ op = "Sin" =>
         /\ Eq(sinReduce(Neg(x)), Neg(sinReduce(x)))
         /\ Eq(Sin(F, Neg(x), prec).v, Neg(res))
    /\ op = "Cos" =>
         LET r == Abs(MathMod(x, twoPi))
             a == cosReduce(Neg(x))
             b == cosReduce(x)
         IN /\ (IsZero(r) \/ Gt(r, Pi)) => Eq(a, b)
            /\ Le(Abs(Sub(F64, a, b)), ReduceUlp)
            /\ Eq(a, b) => Eq(Cos(F, Neg(x), prec).v, res)

\* Cos of a finite input whose negation reduces to a different argument.
C18_Witness ==
  /\ Done("Cos")
  /\ Finite(x)
  /\ Ne(cosReduce(Neg(x)), cosReduce(x))
  /\ Le(Abs(Sub(F64, cosReduce(Neg(x)), cosReduce(x))), ReduceUlp)

\* The steps of a trace that are loop iterations or series terms.
IterationSteps ==
  {"babylonian", "newton", "logTerm", "expTerm", "sinTerm", "cosTerm",
   "tanTerm", "square"}

Iterations(t) == Cardinality({i \in DOMAIN t : t[i] \in IterationSteps})

AbsInt(i) == IF i < 0 THEN -i ELSE i

SameCall(r1, r2) ==
  r1.op = r2.op /\ r1.x = r2.x /\ r1.n = r2.n /\ r1.prec = r2.prec

\* C20: every operation is a function of its arguments only: whatever calls
\* returned before and whatever calls of other goroutines interleave, any two
\* returns for identical arguments carry identical values (the calls in
\* "done" included), and the package-level variables keep the values of
\* their initialisation.
C20_FunctionOfArguments ==
  /\ \A r1, r2 \in returned : SameCall(r1, r2) => r1.res = r2.res
  /\ \A p \in Goroutines : frames[p].pc = "done" => ReturnOf(frames[p]) \in returned
  /\ pkg = PackageVars

\* Two goroutines hold the value of IntPower(1.5, -2) at once, after calls
\* with other arguments have returned.
C20_Witness ==
  /\ frames[1].pc = "done"
  /\ frames[2].pc = "done"
  /\ frames[1].op = "IntPower"
  /\ frames[1].n = -2
  /\ SameCall(ReturnOf(frames[1]), ReturnOf(frames[2]))
  /\ frames[1].res = frames[2].res
  /\ IsFin(frames[1].res)
  /\ Cardinality(returned) >= 3

\* A format wide enough to hold the squares and sums below without rounding.
Exact == [w |-> 0, fb |-> 28, bias |-> 0, emin |-> -6000, emax |-> 6000]

\* |a - sqrt(v)| <= |b - sqrt(v)| for positive finite a, b, v, decided without
\* rounding: a is at or above the root iff a*a >= v, and values on opposite
\* sides are compared through (a + b)^2 and 4*v.
CloserToSqrt(a, b, v) ==
  LET aHigh == Le(v, Mul(Exact, a, a))
      bHigh == Le(v, Mul(Exact, b, b))
      sum == Add(Exact, a, b)
      sum2 == Mul(Exact, sum, sum)
      v4 == Mul(Exact, K(4), v)
  IN IF aHigh /\ bHigh THEN Le(a, b)
     ELSE IF ~aHigh /\ ~bHigh THEN Le(b, a)
     ELSE IF aHigh THEN Le(sum2, v4)
     ELSE Le(v4, sum2)

\* C21: for every operation and every input of its domain the relative error
\* at High does not exceed that at Balanced, which does not exceed that at
\* Fast.  Stated for Sqrt, whose error against the real square root of a
\* fixed positive finite input can be compared without rounding.
C21_ErrorMonotoneInTier ==
  (Done("Sqrt") /\ PositiveFinite(x)) =>
    LET fast == Sqrt(F, x, PrecisionFast).v
        balanced == Sqrt(F, x, PrecisionBalanced).v
        high == Sqrt(F, x, PrecisionHigh).v
    IN /\ CloserToSqrt(high, balanced, x)
       /\ CloserToSqrt(balanced, fast, x)

\* a and b differ by no more than the roundings of two float64 operations on
\* values up to 2*pi.
Near(a, b) == Le(Abs(Sub(F64, a, b)), Canon(0, 1, 3 - F64.fb))

\* a is congruent to b modulo 2*pi, up to rounding, for |a|, |b| <= 2*pi.
CongruentMod2Pi(a, b) ==
  \/ Near(a, b)
  \/ Near(a, Add(F64, b, twoPi))
  \/ Near(a, Sub(F64, b, twoPi))
  \/ Near(Add(F64, a, twoPi), b)
  \/ Near(Sub(F64, a, twoPi), b)

C23_CosineReduction ==
  (pc = "done" /\ op = "Cos" /\ Finite(x)) =>
    LET r == cosReduce(x)
        x0 == MathMod(x, twoPi)
    IN /\ Le(Zero(0), r)
       /\ Le(r, Pi)
       /\ CongruentMod2Pi(r, x0) \/ CongruentMod2Pi(r, Neg(x0))
       /\ res = Conv(F, cosPoly(r, Count(tr, "cosTerm")))

\* Cos of a negative input whose remainder was wrapped and then reflected.
C23_Witness ==
  /\ Done("Cos")
  /\ IsFin(x)
  /\ x.s = 1
  /\ Gt(cosReduce(x), PiHalf)
  /\ Near(cosReduce(x), Neg(MathMod(x, twoPi)))
  /\ Le(cosReduce(x), Pi)

\* a is congruent to b modulo pi, up to rounding, for |a|, |b| <= pi.
CongruentModPi(a, b) ==
  \/ Near(a, b)
  \/ Near(a, Add(F64, b, Pi))
  \/ Near(a, Sub(F64, b, Pi))

\* The float64 sum a + b is the real sum: the part lost by rounding is zero.
ExactSum(a, b) ==
  IF IsZero(a) \/ IsZero(b) THEN TRUE
  ELSE LET sum == Add(F64, a, b)
           big == IF MagLt(a, b) THEN b ELSE a
           small == IF MagLt(a, b) THEN a ELSE b
       IN Eq(Sub(F64, sum, big), small)

\* Two reductions with the same reduced argument and flags.
SameReduction(a, b) ==
  Eq(a.xf, b.xf) /\ a.sign = b.sign /\ a.reciprocal = b.reciprocal

\* The reduction of the input of the current Tan call is sound: r in
\* [0, pi/4], s in {+1, -1}, the angle undone from (r, c) is congruent modulo
\* pi to x when s = +1 and to -x when s = -1, and the kernel returned
\* s * (1/P(r) if c, else P(r)).
TanReductionSound ==
  LET rd == tanReduce(x)
      m0 == MathMod(x, Pi)
      angle == IF rd.reciprocal THEN Sub(F64, PiHalf, rd.xf) ELSE rd.xf
      poly == tanPoly(rd.xf, Count(tr, "tanTerm"))
      undone == IF rd.reciprocal THEN Div(F64, One, poly) ELSE poly
  IN /\ Le(Zero(0), rd.xf)
     /\ Le(rd.xf, PiQuarter)
     /\ rd.sign \in {One, Neg(One)}
     /\ rd.sign = One => CongruentModPi(angle, m0)
     /\ rd.sign = Neg(One) => CongruentModPi(angle, Neg(m0))
     /\ res = Conv(F, Mul(F64, rd.sign, undone))

\* C24: for every finite x and every term count the tangent reduction yields
\* r in [0, pi/4], a sign flag s and a reciprocal flag c with
\* tan(x) = s * (1/tan(r) if c, else tan(r)); the kernel returns
\* s * (1/P(r) if c, else P(r)); and x and x + pi reduce to the same (r, s, c).
C24_TangentReduction ==
  (pc = "done" /\ op = "Tan" /\ Finite(x)) =>
    /\ TanReductionSound
    /\ SameReduction(tanReduce(Add(F64, x, Pi)), tanReduce(x))

\* C24 (amended): as C24, with x and x + pi reducing to the same (r, s, c)
\* whenever the float64 sum x + pi is computed without rounding error.
C24_TangentReductionExactShift ==
  (pc = "done" /\ op = "Tan" /\ Finite(x)) =>
    /\ TanReductionSound
    /\ ExactSum(x, Pi) =>
         SameReduction(tanReduce(Add(F64, x, Pi)), tanReduce(x))

\* Tan of an input folded with sign -1 and the reciprocal flag, whose shift by
\* pi is exact and reduces to the same triple.
C24_Witness ==
  /\ Done("Tan")
  /\ IsFin(x)
  /\ tanReduce(x).sign = Neg(One)
  /\ tanReduce(x).reciprocal
  /\ ExactSum(x, Pi)
  /\ SameReduction(tanReduce(Add(F64, x, Pi)), tanReduce(x))

\* m * 2^e for a finite non-zero m, without rounding.
Scale(m, e) == [m EXCEPT !.e = m.e + e]

\* math.Frexp of a positive finite value: the mantissa in [0.5, 1) and the
\* exponent of the real number x.
Frexp(v) == [m |-> [v EXCEPT !.e = -BitLen(v.m)], e |-> Top(v) + 1]

\* C25: for every positive finite 64-bit input, normal or subnormal, the bit
\* extraction in Log produces m in [0.5, 1) and an integer e with
\* m * 2^e = x, so that the value returned is the one computed from the true
\* decomposition of x.
C25_LogDecomposition ==
  (Done("Log") /\ width = 64 /\ PositiveFinite(x)) =>
    LET d == logMantExp(x)
    IN /\ Le(Half, d.m)
       /\ Lt(d.m, One)
       /\ Scale(d.m, d.e) = x
       /\ d = Frexp(x)

\* The same for the inputs whose float64 exponent field is not zero.
C25_LogDecompositionNormal ==
  (Done("Log") /\ width = 64 /\ PositiveFinite(x) /\ Top(x) >= F64.emin) =>
    LET d == logMantExp(x)
    IN /\ Le(Half, d.m)
       /\ Lt(d.m, One)
       /\ Scale(d.m, d.e) = x
       /\ d = Frexp(x)

\* The last step of a trace.
LastStep(t) == t[Len(t)]

\* C26: in Exp, past the overflow and underflow clamps, k = round(x/ln2) lies
\* in [-1075, 1024]; 2^k is built from bits exactly when -1022 <= k <= 1023,
\* and then the exponent field k + 1023 lies in [1, 2046] and the value built
\* is exactly 2^k, a normal number; for every other k math.Ldexp is used.
C26_ExpScaling ==
  (Done("Exp") /\ tr # <<>>) =>
    LET k == expK(x)
        field == k + 1023
        pow2k == FromBits(F64, field * (2^F64.fb))
    IN /\ k >= -1075
       /\ k <= 1024
       /\ (k >= -1022 /\ k <= 1023) <=> LastStep(tr) = "expScaleBits"
       /\ LastStep(tr) = "expScaleBits" =>
            /\ field >= 1
            /\ field <= 2046
            /\ pow2k = Canon(0, 1, k)
            /\ Top(pow2k) >= F64.emin
       /\ LastStep(tr) # "expScaleBits" => LastStep(tr) = "expLdexp"

\* Exp with k = 1024, at the overflow clamp: math.Ldexp.
C26_Witness ==
  /\ Done("Exp")
  /\ tr # <<>>
  /\ expK(x) = 1024
  /\ LastStep(tr) = "expLdexp"

\* Exp with k below -1022, above the underflow clamp: math.Ldexp.
C26_WitnessLow ==
  /\ Done("Exp")
  /\ tr # <<>>
  /\ expK(x) < -1022
  /\ LastStep(tr) = "expLdexp"

\* The natural-log bounds of float32 overflow and underflow (about 88.72 and
\* -103.97), and the bounds of the scalar width of the call.
OverflowThreshold32 == Round(F64, 0, 5814541, -16, FALSE)
UnderflowThreshold32 == Round(F64, 1, 6813915, -16, FALSE)
OverflowThreshold == IF width = 32 THEN OverflowThreshold32 ELSE maxLogFloat64
UnderflowThreshold == IF width = 32 THEN UnderflowThreshold32 ELSE minLogFloat64

\* C27 as stated: Exp clamps by the thresholds of the scalar width: an input
\* above the overflow threshold of the width returns +Inf, one below the
\* underflow threshold of the width returns 0, and in both cases the call
\* returns before range reduction and polynomial evaluation.
C27_ClampByScalarWidth ==
  (Done("Exp") /\ Finite(x)) =>
    /\ Gt(x, OverflowThreshold) => (res = Inf(0) /\ tr = <<>>)
    /\ Lt(x, UnderflowThreshold) => (res = Zero(0) /\ tr = <<>>)

\* C27: Exp clamps by the float64 thresholds at either scalar width: an input
\* above maxLogFloat64 returns +Inf and one below minLogFloat64 returns 0,
\* before range reduction; every finite input within [-745, 709] is reduced,
\* evaluated and scaled in float64, the 32-bit inputs beyond the float32
\* thresholds included, and the result is the float64 value converted to the
\* width.
C27_ClampByFloat64Bounds ==
  (Done("Exp") /\ Finite(x)) =>
    /\ Gt(x, maxLogFloat64) => (res = Inf(0) /\ tr = <<>>)
    /\ Lt(x, minLogFloat64) => (res = Zero(0) /\ tr = <<>>)
    /\ (Le(K(-745), x) /\ Le(x, K(709))) =>
         LET k == expK(x)
             r == Sub(F64, x, Mul(F64, K(k), ln2))
             expr == expPoly(r, normalizePrecision(prec)).v
         IN /\ tr # <<>>
            /\ tr[1] = "expReduce"
            /\ res = Conv(F, expScale(expr, k).v)

\* A 32-bit Exp of an input beyond the float32 overflow threshold and within
\* the float64 one: the reduction ran and the conversion gave +Inf.
C27_Witness ==
  /\ Done("Exp")
  /\ width = 32
  /\ Finite(x)
  /\ Gt(x, OverflowThreshold32)
  /\ Le(x, K(709))
  /\ tr # <<>>
  /\ res = Inf(0)

\* A 32-bit Exp of an input beyond the float32 underflow threshold and within
\* the float64 one: the reduction ran and the conversion gave 0.
C27_WitnessUnderflow ==
  /\ Done("Exp")
  /\ width = 32
  /\ Finite(x)
  /\ Lt(x, UnderflowThreshold32)
  /\ Le(K(-745), x)
  /\ tr # <<>>
  /\ res = Zero(0)

\* C28: for every x in [-1, 1] and both term counts, Arccos evaluates the
\* arcsine series at x when |x| < 0.5 and at sqrt((1 - x)/2) when |x| >= 0.5,
\* and in both branches the magnitude of the series argument is at most 0.5.
C28_ArccosSeriesArgument ==
  (Done("Arccos") /\ Le(Neg(One), x) /\ Le(x, One)) =>
    LET sarg == arccosArg(F, x)
        terms == IF prec = PrecisionHigh THEN 6 ELSE 3
    IN /\ Lt(Abs(x), Half) =>
            /\ sarg = x
            /\ tr = <<"arcsinPoly", "complement">>
            /\ res = Sub(F, PiHalfT(F), arcsinPoly(F, sarg, terms))
       /\ ~Lt(Abs(x), Half) =>
            /\ sarg = Conv(F, MathSqrt(Div(F, Sub(F, One, x), FromInt(F, 2))))
            /\ tr = <<"halfAngle", "arcsinPoly">>
            /\ res = Mul(F, FromInt(F, 2), arcsinPoly(F, sarg, terms))
       /\ Le(Abs(sarg), Half)

\* The same with the bound on the series argument kept to x > -0.5, where the
\* code provides it.
C28_ArccosSeriesArgumentNonNegative ==
  (Done("Arccos") /\ Lt(Neg(Half), x) /\ Le(x, One)) =>
    Le(Abs(arccosArg(F, x)), Half)

\* The bits of a word of the width: sign, exponent field, fraction.
WordBits(f) == IF f.w = 32 THEN 1 + 8 + f.fb ELSE 1 + 11 + f.fb
\* A pattern that fits the word with the sign bit clear, and is that of a
\* finite non-zero float: the exponent field is not all ones, and the pattern
\* is not zero.
PositiveFinitePattern(f, u) ==
  /\ u > 0
  /\ u < 2^(WordBits(f) - 1)
  /\ u \div (2^f.fb) # 2 * f.bias + 1

\* C29: for every positive finite input of either width, normal or subnormal,
\* the square-root seed (bits >> 1) + offset and the inverse-square-root seed
\* magic - (bits >> 1) do not wrap and are patterns of positive, finite,
\* non-zero floats; the seed of Sqrt is then not zero, so that the y == 0
\* fallback is not taken and the first update does not divide by zero.
C29_SeedPatterns ==
  ((Done("Sqrt") \/ Done("InvSqrt")) /\ PositiveFinite(x)) =>
    LET u == IF op = "Sqrt" THEN sqrtSeedBits(F, x) ELSE invSqrtSeedBits(F, x)
        seed == IF op = "Sqrt" THEN sqrtInitialGuess(F, x) ELSE invSqrtQuake(F, x)
    IN /\ PositiveFinitePattern(F, u)
       /\ PositiveFinite(seed)
       /\ Bits(F, seed) = u
       /\ ~Eq(seed, Zero(0))
       /\ op = "Sqrt" =>
            /\ Finite(Div(F, x, seed))
            /\ res = BabylonianLoop(F, x, seed, Count(tr, "babylonian"))

\* Sqrt of a subnormal and of the largest finite value of the width.
C29_Witness ==
  /\ Done("Sqrt")
  /\ PositiveFinite(x)
  /\ Top(x) < F.emin
  /\ PositiveFinite(sqrtInitialGuess(F, x))

\* InvSqrt of the largest finite value of the width: the smallest seed pattern.
C29_WitnessLargest ==
  /\ Done("InvSqrt")
  /\ x = Canon(0, 2^(F.fb + 1) - 1, F.emax - F.fb)
  /\ PositiveFinite(invSqrtQuake(F, x))

\* C30: for every precision value, Arccos returns NaN for every input outside
\* [-1, 1], above 1 and below -1 alike; it never returns a finite angle for
\* such an input.
C30_ArccosOutOfDomain ==
  (Done("Arccos") /\ (Gt(x, One) \/ Lt(x, Neg(One)))) => IsNaN(res)

\* The same above 1 only, where the square root of a negative value gives NaN.
C30_ArccosAboveOne ==
  (Done("Arccos") /\ Gt(x, One)) => IsNaN(res)

====
